---------------------------- MODULE Spec2Model ----------------------------
(***************************************************************************)
(* Model of the streaming session-fusion and alerting pipeline of the      *)
(* worker stress analysis backend:                                         *)
(*   fusion_engine/fusion.py      MultimodalFusion                         *)
(*   fusion_engine/classifier.py  StressClassifier                         *)
(*   utils/alert_manager.py       AlertManager                             *)
(*   utils/session_manager.py     SessionManager                           *)
(*   websocket_handler.py, app.py the handlers of the socket events        *)
(*                                                                         *)
(* Numbers.  The program computes with Python floats.  Every real number   *)
(* of the model (scores, confidences, weights, timestamps) is an exact     *)
(* rational <<n, d>> in lowest terms with d > 0, so that equal numbers are *)
(* equal values.  Rounding in the last binary place is not modelled.       *)
(*                                                                         *)
(* Dictionaries.  A Python dict is a function whose DOMAIN is the set of   *)
(* keys present; d.get(k, default) is Get(d, k, default).  An optional     *)
(* argument is a sequence of length 0 (None) or 1 (the value).             *)
(***************************************************************************)
EXTENDS Integers, Sequences, FiniteSets, TLC

VARIABLES
    audio_result,     \* argument of the last fuse_stress_scores call
    video_result,     \* argument of the last fuse_stress_scores call
    fused_result,     \* value returned by the last fuse_stress_scores call
    fusion_pc         \* "input": arguments chosen, "done": result returned

fusionVars == <<audio_result, video_result, fused_result, fusion_pc>>

VARIABLES
    session_history,  \* AlertManager.session_history: id -> window of samples
    active_alerts,    \* AlertManager.active_alerts: id -> (alert key -> time)
    returned_alerts,  \* value returned by the last check_alerts call
    last_call,        \* the last call of the manager and what held in it
    sustained_count,  \* id -> sustained alerts returned since the last clear
    sustained_ever,   \* id -> sustained alerts returned since the start
    spike_count,      \* id -> (timestamp -> spike alerts returned with it
                      \*        since the last clear)
    spike_samples,    \* id -> timestamps of the spike samples fed since the
                      \*        last clear
    sample_times,     \* id -> timestamps of the samples fed since the last
                      \*        clear
    n_checks          \* number of check_alerts calls made

alertVars == <<session_history, active_alerts, returned_alerts, last_call,
               sustained_count, sustained_ever, spike_count, spike_samples,
               sample_times, n_checks>>

VARIABLES
    sessions,         \* SessionManager.sessions: id -> session dict
    next_uuid,        \* the ids uuid4 has handed out are 1 .. next_uuid - 1
    now,              \* time.time()
    update_log,       \* id -> every history entry update_session appended
    n_updates,        \* number of update_session calls made
    session_call      \* the last call of the manager and what it returned

sessionVars == <<sessions, next_uuid, now, update_log, n_updates,
                 session_call>>

VARIABLES
    classifier_call,   \* the call of StressClassifier under way
    classifier_result  \* None, or Some(what the call returned or raised)

classifierVars == <<classifier_call, classifier_result>>

VARIABLES
    session_mappings, \* app.session_mappings: socket id -> session id
    handlers,         \* request -> the handler invocation serving it
    running,          \* the request whose handler holds the processor, or 0
    accepted,         \* session id -> the fusion requests accepted for it
    announced,        \* session id -> session_created events emitted with it
    pull_query        \* the last pull query served and what it emitted

pipelineVars == <<session_mappings, handlers, running, accepted, announced,
                  pull_query>>

vars == <<fusionVars, alertVars, sessionVars, classifierVars, pipelineVars>>

----------------------------------------------------------------------------
(* Exact rational arithmetic *)

Abs(n) == IF n < 0 THEN -n ELSE n

RECURSIVE GCD(_, _)
GCD(a, b) == IF b = 0 THEN a ELSE GCD(b, a % b)

\* The rational n/d (d # 0) in lowest terms with a positive denominator.
R(n, d) ==
    LET s == IF d < 0 THEN -1 ELSE 1
        g == GCD(Abs(n), Abs(d))
    IN  <<(s * n) \div g, (s * d) \div g>>

RAdd(x, y) == R(x[1] * y[2] + y[1] * x[2], x[2] * y[2])
RSub(x, y) == R(x[1] * y[2] - y[1] * x[2], x[2] * y[2])
RMul(x, y) == R(x[1] * y[1], x[2] * y[2])
RDiv(x, y) == R(x[1] * y[2], x[2] * y[1])
RAbs(x)    == <<Abs(x[1]), x[2]>>
RLt(x, y)  == x[1] * y[2] < y[1] * x[2]
RGe(x, y)  == ~RLt(x, y)
RGt(x, y)  == RLt(y, x)

\* Python int(x) of a float: truncation toward zero.
RInt(x) == IF x[1] >= 0 THEN x[1] \div x[2] ELSE -((-x[1]) \div x[2])

\* x // m and x % m for an integer m > 0
RFloorDiv(x, m) == x[1] \div (x[2] * m)
RMod(x, m) == RSub(x, R(RFloorDiv(x, m) * m, 1))

RECURSIVE Pow10(_)
Pow10(n) == IF n = 0 THEN 1 ELSE 10 * Pow10(n - 1)

\* round(x, ndigits): to the nearest multiple of 10^-ndigits, a tie to the
\* even one (the tie of the exact value: the float's last place is not
\* modelled).
RRound(x, ndigits) ==
    LET scale == Pow10(ndigits)
        num   == x[1] * scale
        q     == num \div x[2]
        rem   == num % x[2]
        up    == \/ 2 * rem > x[2]
                 \/ (2 * rem = x[2] /\ q % 2 = 1)
    IN  R(IF up THEN q + 1 ELSE q, scale)

\* max(xs) and min(xs) of a non-empty list of numbers
RECURSIVE RMaxOf(_)
RMaxOf(xs) ==
    IF Len(xs) = 1 THEN xs[1]
    ELSE LET m == RMaxOf(Tail(xs)) IN IF RLt(m, xs[1]) THEN xs[1] ELSE m

RECURSIVE RMinOf(_)
RMinOf(xs) ==
    IF Len(xs) = 1 THEN xs[1]
    ELSE LET m == RMinOf(Tail(xs)) IN IF RLt(xs[1], m) THEN xs[1] ELSE m

Zero == R(0, 1)
One  == R(1, 1)
Half == R(1, 2)

\* sum(xs) of a list of numbers
RECURSIVE RSum(_)
RSum(xs) == IF xs = <<>> THEN Zero ELSE RAdd(Head(xs), RSum(Tail(xs)))

\* xs[start:] of a list, for any integer start
SliceFrom(xs, start) ==
    LET n == Len(xs)
        i == IF start < 0 THEN (IF start + n < 0 THEN 0 ELSE start + n)
             ELSE IF start > n THEN n ELSE start
    IN  SubSeq(xs, i + 1, n)

\* xs[:stop] of a list, for any integer stop
SliceTo(xs, stop) ==
    LET n == Len(xs)
        j == IF stop < 0 THEN (IF stop + n < 0 THEN 0 ELSE stop + n)
             ELSE IF stop > n THEN n ELSE stop
    IN  SubSeq(xs, 1, j)

\* d.get(k, default)
Get(d, k, default) == IF k \in DOMAIN d THEN d[k] ELSE default

None == <<>>
Some(v) == <<v>>

\* deque.append on a deque(maxlen = maxlen)
DequeAppend(q, x, maxlen) ==
    IF Len(q) >= maxlen THEN Append(Tail(q), x) ELSE Append(q, x)

----------------------------------------------------------------------------
(* config.py *)

AUDIO_WEIGHT == R(5, 10)
VIDEO_WEIGHT == R(5, 10)

STRESS_LOW_THRESHOLD  == R(33, 100)
STRESS_HIGH_THRESHOLD == R(66, 100)

\* Maximum data points to keep in memory (1000 in config.py), scaled down.
SESSION_MAX_HISTORY == 2

ALERT_HIGH_STRESS_THRESHOLD == R(7, 10)
ALERT_HIGH_STRESS_DURATION  == 180
ALERT_SPIKE_THRESHOLD       == R(3, 10)

----------------------------------------------------------------------------
(* fusion_engine/fusion.py : MultimodalFusion *)

\* A bug: the Low band ends at 0.30 instead of STRESS_LOW_THRESHOLD.
_classify_low_below_030(stress_score) ==
    IF RLt(stress_score, R(30, 100)) THEN "Low"
    ELSE IF RLt(stress_score, STRESS_HIGH_THRESHOLD) THEN "Medium"
    ELSE "High"

_classify_stress_level(stress_score) ==
    IF RLt(stress_score, STRESS_LOW_THRESHOLD) THEN "Low"
    ELSE IF RLt(stress_score, STRESS_HIGH_THRESHOLD) THEN "Medium"
    ELSE "High"

_get_default_result ==
    [ stress_score       |-> Half,
      stress_level       |-> "Medium",
      confidence         |-> Zero,
      modalities_used    |-> <<>>,
      fusion_method      |-> "none",
      modality_agreement |-> "N/A",
      error              |-> "No modality data available" ]

\* A bug: the single score is scaled by the static weight of its modality.
_single_modality_weighted(result, modality) ==
    LET stress_score == RMul(IF modality = "audio" THEN AUDIO_WEIGHT
                             ELSE VIDEO_WEIGHT,
                             Get(result, "stress_score", Half))
        confidence   == Get(result, "confidence", Half)
        emotion      == Get(result, "emotion", "neutral")
        stress_level == Get(result, "stress_level", "Medium")
    IN  [ stress_score       |-> stress_score,
          stress_level       |-> stress_level,
          confidence         |-> confidence,
          modalities_used    |-> <<modality>>,
          fusion_method      |-> "single_modality",
          modality_agreement |-> "N/A" ]
        @@ (modality :> [ stress_score |-> stress_score,
                          emotion      |-> emotion,
                          confidence   |-> confidence,
                          stress_level |-> stress_level ])

_single_modality_result(result, modality) ==
    LET stress_score == Get(result, "stress_score", Half)
        confidence   == Get(result, "confidence", Half)
        emotion      == Get(result, "emotion", "neutral")
        stress_level == Get(result, "stress_level", "Medium")
    IN  [ stress_score       |-> stress_score,
          stress_level       |-> stress_level,
          confidence         |-> confidence,
          modalities_used    |-> <<modality>>,
          fusion_method      |-> "single_modality",
          modality_agreement |-> "N/A" ]
        @@ (modality :> [ stress_score |-> stress_score,
                          emotion      |-> emotion,
                          confidence   |-> confidence,
                          stress_level |-> stress_level ])

\* A bug the configured static weights invite: they are applied instead of
\* the confidence shares.
static_weights(audio_conf, video_conf) ==
    [ audio |-> AUDIO_WEIGHT, video |-> VIDEO_WEIGHT ]

\* Dynamic weight adjustment based on confidence.
dynamic_weights(audio_conf, video_conf) ==
    LET total_conf == RAdd(audio_conf, video_conf)
    IN  IF RGt(total_conf, Zero)
        THEN [ audio |-> RDiv(audio_conf, total_conf),
               video |-> RDiv(video_conf, total_conf) ]
        ELSE [ audio |-> Half, video |-> Half ]

\* A bug: the difference of the scores is taken without abs().
signed_agreement(audio_stress, video_stress) ==
    LET diff == RSub(audio_stress, video_stress)
    IN  IF RLt(diff, R(1, 10)) THEN "high"
        ELSE IF RLt(diff, R(3, 10)) THEN "medium"
        ELSE "low"

modality_agreement(audio_stress, video_stress) ==
    LET diff == RAbs(RSub(audio_stress, video_stress))
    IN  IF RLt(diff, R(1, 10)) THEN "high"
        ELSE IF RLt(diff, R(3, 10)) THEN "medium"
        ELSE "low"

_dual_modality_fusion(audio, video) ==
    LET audio_stress == Get(audio, "stress_score", Half)
        audio_conf   == Get(audio, "confidence", Half)
        video_stress == Get(video, "stress_score", Half)
        video_conf   == Get(video, "confidence", Half)
        w            == dynamic_weights(audio_conf, video_conf)
        fused_stress == RAdd(RMul(w.audio, audio_stress),
                             RMul(w.video, video_stress))
        fused_confidence == RDiv(RAdd(audio_conf, video_conf), R(2, 1))
        fused_level == _classify_stress_level(fused_stress)
        agreement   == modality_agreement(audio_stress, video_stress)
    IN  [ stress_score       |-> fused_stress,
          stress_level       |-> fused_level,
          confidence         |-> fused_confidence,
          modalities_used    |-> <<"audio", "video">>,
          audio |-> [ stress_score |-> audio_stress,
                      emotion      |-> Get(audio, "emotion", "neutral"),
                      confidence   |-> audio_conf,
                      stress_level |-> Get(audio, "stress_level", "Medium") ],
          video |-> [ stress_score |-> video_stress,
                      emotion      |-> Get(video, "emotion", "neutral"),
                      confidence   |-> video_conf,
                      stress_level |-> Get(video, "stress_level", "Medium") ],
          fusion_method      |-> "confidence_weighted_average",
          modality_agreement |-> agreement,
          weights |-> [ audio |-> w.audio, video |-> w.video ] ]

\* A bug: the inputs are tested for truth instead of "is None", so that an
\* empty result counts as absent.
fuse_stress_scores_truthy(audio, video) ==
    LET absent(x) == x = None \/ DOMAIN x[1] = {}
    IN  IF absent(audio) /\ absent(video) THEN _get_default_result
        ELSE IF absent(audio) THEN _single_modality_result(video[1], "video")
        ELSE IF absent(video) THEN _single_modality_result(audio[1], "audio")
        ELSE _dual_modality_fusion(audio[1], video[1])

\* audio, video: None or Some(dict)
fuse_stress_scores(audio, video) ==
    IF audio = None /\ video = None THEN _get_default_result
    ELSE IF audio = None THEN _single_modality_result(video[1], "video")
    ELSE IF video = None THEN _single_modality_result(audio[1], "audio")
    ELSE _dual_modality_fusion(audio[1], video[1])

----------------------------------------------------------------------------
(* fusion_engine/classifier.py : StressClassifier *)

\* What a call that raises returns to its caller.
Raised(exception) == [ raised |-> exception ]

\* A bug: the thresholds belong to the band below them.
classify_inclusive(stress_score) ==
    IF RGe(STRESS_LOW_THRESHOLD, stress_score)
    THEN [ level |-> "Low", score |-> stress_score, color |-> "green",
           description |-> "Worker appears calm and relaxed",
           recommendation |-> "Maintain current work conditions" ]
    ELSE IF RGe(STRESS_HIGH_THRESHOLD, stress_score)
    THEN [ level |-> "Medium", score |-> stress_score, color |-> "yellow",
           description |-> "Worker shows moderate stress indicators",
           recommendation |-> "Monitor closely for any changes" ]
    ELSE [ level |-> "High", score |-> stress_score, color |-> "red",
           description |-> "Worker shows elevated stress levels",
           recommendation |-> "Suggest taking a break and assess workload" ]

classify(stress_score) ==
    IF RLt(stress_score, STRESS_LOW_THRESHOLD)
    THEN [ level |-> "Low", score |-> stress_score, color |-> "green",
           description |-> "Worker appears calm and relaxed",
           recommendation |-> "Maintain current work conditions" ]
    ELSE IF RLt(stress_score, STRESS_HIGH_THRESHOLD)
    THEN [ level |-> "Medium", score |-> stress_score, color |-> "yellow",
           description |-> "Worker shows moderate stress indicators",
           recommendation |-> "Monitor closely for any changes" ]
    ELSE [ level |-> "High", score |-> stress_score, color |-> "red",
           description |-> "Worker shows elevated stress levels",
           recommendation |-> "Suggest taking a break and assess workload" ]

\* stress_history: a list of scores.  The division by len(first_half)
\* raises ZeroDivisionError when the half is empty.
get_stress_trend(stress_history, window) ==
    IF stress_history = <<>> \/ Len(stress_history) < 2
    THEN [ trend |-> "insufficient_data", direction |-> "neutral",
           change |-> Zero ]
    ELSE LET n == Len(stress_history)
             recent == SliceFrom(stress_history,
                                 -(IF window < n THEN window ELSE n))
             first_half  == SliceTo(recent, Len(recent) \div 2)
             second_half == SliceFrom(recent, Len(recent) \div 2)
         IN  IF Len(first_half) = 0 \/ Len(second_half) = 0
             THEN Raised("ZeroDivisionError")
             ELSE LET avg_first  == RDiv(RSum(first_half),
                                         R(Len(first_half), 1))
                      avg_second == RDiv(RSum(second_half),
                                         R(Len(second_half), 1))
                      change == RSub(avg_second, avg_first)
                      stable == RLt(RAbs(change), R(5, 100))
                  IN  [ trend |-> IF stable THEN "stable"
                                  ELSE IF RGt(change, Zero) THEN "increasing"
                                  ELSE "decreasing",
                        direction |-> IF stable THEN "neutral"
                                      ELSE IF RGt(change, Zero) THEN "up"
                                      ELSE "down",
                        change |-> change,
                        recent_average |-> avg_second ]

----------------------------------------------------------------------------
(* utils/session_manager.py : SessionManager *)

\* A session id is a natural number: uuid4 hands out 1, 2, 3, ... and never
\* the same one twice; 0 is an id that no session was ever created under.

\* The dict create_session stores.  worker_id: None or Some(name).
NewSession(session_id, worker_id, time) ==
    [ session_id      |-> session_id,
      worker_id       |-> IF worker_id = None THEN <<"worker_", session_id>>
                          ELSE worker_id[1],
      start_time      |-> time,
      stress_history  |-> <<>>,
      emotion_counts  |-> <<>>,
      total_updates   |-> 0,
      current_stress  |-> Half,
      current_emotion |-> "neutral",
      status          |-> "active" ]

\* A bug: the emotion of the more confident modality is recorded.
HistoryEntryDominant(fused, time) ==
    LET audio == Get(fused, "audio", <<>>)
        video == Get(fused, "video", <<>>)
        audio_first == RGe(Get(audio, "confidence", Zero),
                           Get(video, "confidence", Zero))
    IN  [ timestamp    |-> time,
          stress_score |-> Get(fused, "stress_score", Half),
          stress_level |-> Get(fused, "stress_level", "Medium"),
          emotion      |-> IF audio_first
                           THEN Get(audio, "emotion", "neutral")
                           ELSE Get(video, "emotion", "neutral"),
          modalities   |-> Get(fused, "modalities_used", <<>>) ]

\* The history entry update_session appends for fused_result.
HistoryEntry(fused, time) ==
    [ timestamp    |-> time,
      stress_score |-> Get(fused, "stress_score", Half),
      stress_level |-> Get(fused, "stress_level", "Medium"),
      emotion      |-> Get(Get(fused, "audio", <<>>), "emotion", "neutral"),
      modalities   |-> Get(fused, "modalities_used", <<>>) ]

\* A bug: a full history drops its newest entry instead of its oldest.
AppendDropNewest(history, entry) ==
    IF Len(history) >= SESSION_MAX_HISTORY
    THEN Append(SubSeq(history, 1, Len(history) - 1), entry)
    ELSE Append(history, entry)

\* session['stress_history'].append(entry) on deque(maxlen=max_history)
AppendHistory(history, entry) ==
    DequeAppend(history, entry, SESSION_MAX_HISTORY)

\* A bug: the update is not counted.
UpdatedSessionUncounted(session, fused, time) ==
    LET entry == HistoryEntry(fused, time)
        primary_emotion == entry.emotion
        counts == session.emotion_counts
    IN  [ session EXCEPT
            !.stress_history = AppendHistory(@, entry),
            !.emotion_counts =
                (primary_emotion :> (Get(counts, primary_emotion, 0) + 1))
                @@ counts,
            !.current_stress = entry.stress_score,
            !.current_emotion = primary_emotion,
            !.status = IF RGe(entry.stress_score, ALERT_HIGH_STRESS_THRESHOLD)
                       THEN "at_risk" ELSE "normal" ]

\* The session dict after update_session applied fused_result to it.
UpdatedSession(session, fused, time) ==
    LET entry == HistoryEntry(fused, time)
        primary_emotion == entry.emotion
        counts == session.emotion_counts
    IN  [ session EXCEPT
            !.stress_history = AppendHistory(@, entry),
            !.emotion_counts =
                (primary_emotion :> (Get(counts, primary_emotion, 0) + 1))
                @@ counts,
            !.current_stress = entry.stress_score,
            !.current_emotion = primary_emotion,
            !.total_updates = @ + 1,
            !.status = IF RGe(entry.stress_score, ALERT_HIGH_STRESS_THRESHOLD)
                       THEN "at_risk" ELSE "normal" ]

\* An emotion that is a JSON list: it can be stored, but it is not hashable
\* and "primary_emotion in session['emotion_counts']" raises TypeError on
\* it.
ListEmotion == "['angry']"
IsHashable(emotion) == emotion # ListEmotion

\* The session dict when update_session raises at the emotion count: the
\* entry was appended to the history, nothing else was done.
PartlyUpdatedSession(session, fused, time) ==
    [ session EXCEPT
        !.stress_history = AppendHistory(@, HistoryEntry(fused, time)) ]

\* The session dict as update_session leaves it, returning or raising.
AppliedUpdate(session, fused, time) ==
    IF IsHashable(HistoryEntry(fused, time).emotion)
    THEN UpdatedSession(session, fused, time)
    ELSE PartlyUpdatedSession(session, fused, time)

\* The text _format_duration builds, as the list of its parts.
_format_duration(seconds) ==
    LET hours   == RFloorDiv(seconds, 3600)
        minutes == RFloorDiv(RMod(seconds, 3600), 60)
        secs    == RInt(RMod(seconds, 60))
    IN  IF hours > 0 THEN <<hours, "h ", minutes, "m ", secs, "s">>
        ELSE IF minutes > 0 THEN <<minutes, "m ", secs, "s">>
        ELSE <<secs, "s">>

_calculate_analytics(session) ==
    LET history == session.stress_history
    IN  IF history = <<>>
        THEN [ average_stress         |-> Half,
               peak_stress            |-> Half,
               min_stress             |-> Half,
               stress_variance        |-> Zero,
               emotion_distribution   |-> <<>>,
               high_stress_percentage |-> Zero ]
        ELSE LET stress_scores ==
                     [ i \in 1..Len(history) |-> history[i].stress_score ]
                 n == R(Len(stress_scores), 1)
                 avg_stress == RDiv(RSum(stress_scores), n)
                 squares ==
                     [ i \in 1..Len(stress_scores) |->
                         RMul(RSub(stress_scores[i], avg_stress),
                              RSub(stress_scores[i], avg_stress)) ]
                 variance == RDiv(RSum(squares), n)
                 high_stress_count ==
                     Cardinality({ i \in 1..Len(stress_scores) :
                         RGe(stress_scores[i], STRESS_HIGH_THRESHOLD) })
                 high_stress_pct ==
                     RMul(RDiv(R(high_stress_count, 1), n), R(100, 1))
                 counts == session.emotion_counts
                 RECURSIVE Total(_)
                 Total(E) == IF E = {} THEN 0
                             ELSE LET e == CHOOSE x \in E : TRUE
                                  IN  counts[e] + Total(E \ {e})
                 total_emotions == Total(DOMAIN counts)
             IN  [ average_stress  |-> RRound(avg_stress, 3),
                   peak_stress     |-> RRound(RMaxOf(stress_scores), 3),
                   min_stress      |-> RRound(RMinOf(stress_scores), 3),
                   stress_variance |-> RRound(variance, 3),
                   emotion_distribution |->
                       [ e \in DOMAIN counts |->
                           RMul(R(counts[e], total_emotions), R(100, 1)) ],
                   high_stress_percentage |-> RRound(high_stress_pct, 1),
                   data_points |-> Len(history) ]

\* A bug: an unknown id is answered with an error record instead of None.
SessionInfoOrError(store, session_id, time) ==
    IF session_id \notin DOMAIN store
    THEN Some([ error |-> "Session not found" ])
    ELSE LET session  == store[session_id]
             duration == RSub(time, session.start_time)
         IN  Some([ session_id         |-> session.session_id,
                    worker_id          |-> session.worker_id,
                    duration           |-> duration,
                    duration_formatted |-> _format_duration(duration),
                    status             |-> session.status,
                    current_stress     |-> session.current_stress,
                    current_emotion    |-> session.current_emotion,
                    total_updates      |-> session.total_updates,
                    analytics          |-> _calculate_analytics(session) ])

\* What get_session_info(session_id) returns from the store at the given
\* time: None, or Some(info).
SessionInfo(store, session_id, time) ==
    IF session_id \notin DOMAIN store THEN None
    ELSE LET session  == store[session_id]
             duration == RSub(time, session.start_time)
         IN  Some([ session_id         |-> session.session_id,
                    worker_id          |-> session.worker_id,
                    duration           |-> duration,
                    duration_formatted |-> _format_duration(duration),
                    status             |-> session.status,
                    current_stress     |-> session.current_stress,
                    current_emotion    |-> session.current_emotion,
                    total_updates      |-> session.total_updates,
                    analytics          |-> _calculate_analytics(session) ])

\* update_session that keeps the id it was given.
UpdateTargetSupplied(session_id) == session_id

\* The id update_session works on: the given one when it is in the store,
\* else the id of the session it creates.
UpdateTarget(session_id) ==
    IF session_id \in DOMAIN sessions THEN session_id ELSE next_uuid

\* What get_stress_timeline(session_id, limit) returns from the store.
StressTimeline(store, session_id, limit) ==
    IF session_id \notin DOMAIN store THEN <<>>
    ELSE LET history == store[session_id].stress_history
             n == Len(history)
             \* history[-limit:]
             recent == IF n > limit
                       THEN (IF limit = 0 THEN history
                             ELSE SubSeq(history, n - limit + 1, n))
                       ELSE history
         IN  [ i \in 1..Len(recent) |->
                 [ timestamp    |-> recent[i].timestamp,
                   stress_score |-> recent[i].stress_score,
                   stress_level |-> recent[i].stress_level,
                   emotion      |-> recent[i].emotion ] ]

----------------------------------------------------------------------------
(* utils/alert_manager.py : AlertManager *)

\* deque(maxlen=1000) of check_alerts, scaled down.
ALERT_HISTORY_MAXLEN == 7

\* The number of preceding samples the spike check averages.
SPIKE_LOOKBACK == 5

RECURSIVE SumScores(_)
SumScores(q) == IF q = <<>> THEN Zero ELSE RAdd(q[1].score, SumScores(Tail(q)))

SustainedKey == <<"sustained_high_stress">>
SpikeKey(timestamp) == <<"spike", RInt(timestamp)>>

\* A bug: every entry of the window counts, however old.
TotalRecentWholeWindow(history, current_time) == history

\* The entries of the window within the last ALERT_HIGH_STRESS_DURATION
\* seconds (total_recent).
TotalRecent(history, current_time) ==
    LET cutoff_time == RSub(current_time, R(ALERT_HIGH_STRESS_DURATION, 1))
        recent(entry) == RGe(entry.timestamp, cutoff_time)
    IN  SelectSeq(history, recent)

\* high_ratio >= 0.8 over a non-empty total_recent
SustainedCondition(history, current_time) ==
    LET total_recent == TotalRecent(history, current_time)
        high(entry) == RGe(entry.score, ALERT_HIGH_STRESS_THRESHOLD)
        recent_high == SelectSeq(total_recent, high)
    IN  /\ Len(total_recent) > 0
        /\ RGe(R(Len(recent_high), Len(total_recent)), R(8, 10))

\* A bug: the fired key is not consulted.
_sustained_every_time(history, alerts, current_time) ==
    IF SustainedCondition(history, current_time)
    THEN [ alert  |-> Some([ type |-> "sustained_high_stress",
                             severity |-> "high",
                             timestamp |-> current_time,
                             priority |-> "urgent" ]),
           active |-> (SustainedKey :> current_time) @@ alerts ]
    ELSE [ alert |-> None, active |-> alerts ]

\* history: the window of the session; alerts: its active_alerts dict.
\* Returns the alert (or None) and the dict as the call leaves it.
_check_sustained_high_stress(history, alerts, current_time) ==
    IF /\ SustainedCondition(history, current_time)
       /\ SustainedKey \notin DOMAIN alerts
    THEN [ alert  |-> Some([ type |-> "sustained_high_stress",
                             severity |-> "high",
                             timestamp |-> current_time,
                             priority |-> "urgent" ]),
           active |-> (SustainedKey :> current_time) @@ alerts ]
    ELSE [ alert |-> None, active |-> alerts ]

\* A bug: the newest sample is compared with the mean of every earlier
\* sample of the window.
SpikeOverWholeWindow(history) ==
    /\ Len(history) >= 2
    /\ LET n == Len(history)
           current == history[n].score
           previous == SubSeq(history, 1, n - 1)
           previous_avg == RDiv(SumScores(previous), R(Len(previous), 1))
           spike == RSub(current, previous_avg)
       IN  RGe(spike, ALERT_SPIKE_THRESHOLD)

\* spike >= self.spike_threshold for the newest sample of the window
SpikeCondition(history) ==
    /\ Len(history) >= 2
    /\ LET n == Len(history)
           current == history[n].score
           window_size == IF SPIKE_LOOKBACK < n - 1 THEN SPIKE_LOOKBACK
                          ELSE n - 1
           previous == SubSeq(history, n - window_size, n - 1)
           previous_avg == RDiv(SumScores(previous), R(Len(previous), 1))
           spike == RSub(current, previous_avg)
       IN  RGe(spike, ALERT_SPIKE_THRESHOLD)

\* A bug: one key for every spike, as for the sustained alert.
_spike_one_key(history, alerts) ==
    LET newest == history[Len(history)].timestamp
        alert_key == <<"spike">>
    IN  IF SpikeCondition(history) /\ alert_key \notin DOMAIN alerts
        THEN [ alert  |-> Some([ type |-> "sudden_stress_spike",
                                 severity |-> "medium",
                                 timestamp |-> newest,
                                 priority |-> "high" ]),
               active |-> (alert_key :> newest) @@ alerts ]
        ELSE [ alert |-> None, active |-> alerts ]

\* A bug: the fired key is not consulted.
_spike_every_time(history, alerts) ==
    LET newest == history[Len(history)].timestamp
    IN  IF SpikeCondition(history)
        THEN [ alert  |-> Some([ type |-> "sudden_stress_spike",
                                 severity |-> "medium",
                                 timestamp |-> newest,
                                 priority |-> "high" ]),
               active |-> (SpikeKey(newest) :> newest) @@ alerts ]
        ELSE [ alert |-> None, active |-> alerts ]

_check_stress_spike(history, alerts) ==
    LET newest == history[Len(history)].timestamp
        alert_key == SpikeKey(newest)
    IN  IF SpikeCondition(history) /\ alert_key \notin DOMAIN alerts
        THEN [ alert  |-> Some([ type |-> "sudden_stress_spike",
                                 severity |-> "medium",
                                 timestamp |-> newest,
                                 priority |-> "high" ]),
               active |-> (alert_key :> newest) @@ alerts ]
        ELSE [ alert |-> None, active |-> alerts ]

\* check_alerts on the two dicts of the manager: the dicts as the call
\* leaves them and the list of alerts it returns.
CheckAlerts(histories, alerts, session_id, stress_score, timestamp) ==
    LET known   == session_id \in DOMAIN histories
        before  == IF known THEN histories[session_id] ELSE <<>>
        fired   == IF known THEN alerts[session_id] ELSE <<>>
        history == DequeAppend(before,
                               [ score |-> stress_score,
                                 timestamp |-> timestamp ],
                               ALERT_HISTORY_MAXLEN)
        sustained == _check_sustained_high_stress(history, fired, timestamp)
        spike     == _check_stress_spike(history, sustained.active)
    IN  [ session_history |-> (session_id :> history) @@ histories,
          active_alerts   |-> (session_id :> spike.active) @@ alerts,
          alerts          |-> sustained.alert \o spike.alert ]

\* A bug: the window is dropped and the fired keys are kept.
ClearSessionHistoryOnly(histories, alerts, session_id) ==
    [ session_history |->
          [ k \in DOMAIN histories \ {session_id} |-> histories[k] ],
      active_alerts |-> alerts ]

\* clear_session on the two dicts of the manager.
ClearSession(histories, alerts, session_id) ==
    [ session_history |->
          [ k \in DOMAIN histories \ {session_id} |-> histories[k] ],
      active_alerts |->
          [ k \in DOMAIN alerts \ {session_id} |-> alerts[k] ] ]

get_alert_history(session_id) ==
    IF session_id \notin DOMAIN active_alerts THEN {}
    ELSE DOMAIN active_alerts[session_id]

----------------------------------------------------------------------------
(* The alert manager driven by its callers *)

MaxChecks == 4

AlertSessionIds == { 1, 2 }

\* The keys the dicts of the manager can have: the ids above, and 0 for
\* the key None.
AlertKeys == { 0 } \cup AlertSessionIds
AlertScores     == { R(2, 10), R(9, 10) }
\* 0 s, 0.5 s (the same whole second), and 181 s (more than the sustained
\* duration later).
AlertTimes      == { R(0, 1), R(1, 2), R(181, 1) }

NoCall == [ op |-> "none" ]

SessionInit ==
    /\ sessions = <<>>
    /\ next_uuid = 1
    /\ now = Zero
    /\ update_log = <<>>
    /\ n_updates = 0
    /\ session_call = NoCall

\* No call of the classifier is under way.
ClassifierIdle ==
    /\ classifier_call = NoCall
    /\ classifier_result = None

\* No client is connected and no handler runs.
PipelineInit ==
    /\ session_mappings = <<>>
    /\ handlers = <<>>
    /\ running = 0
    /\ accepted = <<>>
    /\ announced = <<>>
    /\ pull_query = NoCall

AlertInit ==
    /\ session_history = <<>>
    /\ active_alerts = <<>>
    /\ returned_alerts = <<>>
    /\ last_call = NoCall
    /\ sustained_count = [ s \in AlertKeys |-> 0 ]
    /\ sustained_ever = [ s \in AlertKeys |-> 0 ]
    /\ spike_count = [ s \in AlertKeys |-> <<>> ]
    /\ spike_samples = [ s \in AlertKeys |-> {} ]
    /\ sample_times = [ s \in AlertKeys |-> {} ]
    /\ n_checks = 0

SpecAlertInit ==
    /\ AlertInit
    /\ SessionInit
    /\ ClassifierIdle
    /\ PipelineInit
    /\ fused_result = _get_default_result
    /\ audio_result = None
    /\ video_result = None
    /\ fusion_pc = "idle"

AlertTypes(alerts) == { alerts[i].type : i \in 1..Len(alerts) }

\* check_alerts(session_id, stress_score, timestamp)
ApplyCheck(session_id, stress_score, timestamp) ==
    /\ \E r \in { CheckAlerts(session_history, active_alerts,
                              session_id, stress_score, timestamp) } :
       \E is_spike \in { SpikeCondition(r.session_history[session_id]) } :
       \E types \in { AlertTypes(r.alerts) } :
          /\ n_checks' = n_checks + 1
          /\ session_history' = r.session_history
          /\ active_alerts' = r.active_alerts
          /\ returned_alerts' = r.alerts
          /\ last_call' =
                [ op |-> "check_alerts",
                  session_id |-> session_id,
                  stress_score |-> stress_score,
                  timestamp |-> timestamp,
                  sustained |->
                      SustainedCondition(r.session_history[session_id],
                                         timestamp),
                  spike |-> is_spike,
                  sustained_before |-> sustained_count[session_id],
                  earlier_spikes |-> spike_samples[session_id] ]
          /\ sustained_count' =
                IF "sustained_high_stress" \in types
                THEN [ sustained_count EXCEPT ![session_id] = @ + 1 ]
                ELSE sustained_count
          /\ sustained_ever' =
                IF "sustained_high_stress" \in types
                THEN [ sustained_ever EXCEPT ![session_id] = @ + 1 ]
                ELSE sustained_ever
          /\ spike_count' =
                IF "sudden_stress_spike" \in types
                THEN [ spike_count EXCEPT ![session_id] =
                          (timestamp :>
                             (Get(spike_count[session_id], timestamp, 0) + 1))
                          @@ spike_count[session_id] ]
                ELSE spike_count
          /\ spike_samples' =
                IF is_spike
                THEN [ spike_samples EXCEPT
                          ![session_id] = @ \cup {timestamp} ]
                ELSE spike_samples
          /\ sample_times' =
                [ sample_times EXCEPT ![session_id] = @ \cup {timestamp} ]

\* check_alerts(session_id, stress_score, timestamp), at most MaxChecks
\* times
check_alerts(session_id, stress_score, timestamp) ==
    /\ n_checks < MaxChecks
    /\ ApplyCheck(session_id, stress_score, timestamp)

\* clear_session(session_id)
clear_session(session_id) ==
    LET r == ClearSession(session_history, active_alerts, session_id)
    IN  /\ session_history' = r.session_history
        /\ active_alerts' = r.active_alerts
        /\ returned_alerts' = <<>>
        /\ last_call' = [ op |-> "clear_session", session_id |-> session_id ]
        /\ sustained_count' = [ sustained_count EXCEPT ![session_id] = 0 ]
        /\ spike_count' = [ spike_count EXCEPT ![session_id] = <<>> ]
        /\ spike_samples' = [ spike_samples EXCEPT ![session_id] = {} ]
        /\ sample_times' = [ sample_times EXCEPT ![session_id] = {} ]
        /\ UNCHANGED <<sustained_ever, n_checks>>

CheckAlertsCall ==
    \E s \in AlertSessionIds, x \in AlertScores, t \in AlertTimes :
        /\ check_alerts(s, x, t)
        /\ UNCHANGED <<fusionVars, sessionVars, classifierVars, pipelineVars>>

ClearSessionCall ==
    \E s \in AlertSessionIds :
        /\ clear_session(s)
        /\ UNCHANGED <<fusionVars, sessionVars, classifierVars, pipelineVars>>

AlertNext == CheckAlertsCall \/ ClearSessionCall

SpecAlert == SpecAlertInit /\ [][AlertNext]_vars

----------------------------------------------------------------------------
(* One session fed a sample at a time, as handle_fusion_request feeds it:  *)
(* each sample is stamped with the clock, which never runs backwards.      *)

\* Enough samples for a sixth sample before the newest one.
MaxSpikeChecks == 7

\* Enough samples for the window to evict one.
MaxSustainedChecks == 8

\* The timestamp of the newest sample of the session, 0 before the first.
LastTime(session_id) ==
    LET window == Get(session_history, session_id, <<>>)
    IN  IF window = <<>> THEN Zero ELSE window[Len(window)].timestamp

\* The next sample comes in the same instant or one second later.
SpikeCheckCall ==
    \E x \in AlertScores, dt \in { 0, 1 } :
        /\ n_checks < MaxSpikeChecks
        /\ ApplyCheck(1, x, RAdd(LastTime(1), R(dt, 1)))
        /\ UNCHANGED <<fusionVars, sessionVars, classifierVars, pipelineVars>>

SpikeNext == SpikeCheckCall

SpecSpike == SpecAlertInit /\ [][SpikeNext]_vars

\* The next sample comes one second later, or after a pause longer than
\* the sustained duration.
SustainedCheckCall ==
    \E x \in AlertScores, dt \in { 1, ALERT_HIGH_STRESS_DURATION + 1 } :
        /\ n_checks < MaxSustainedChecks
        /\ ApplyCheck(1, x, RAdd(LastTime(1), R(dt, 1)))
        /\ UNCHANGED <<fusionVars, sessionVars, classifierVars, pipelineVars>>

SustainedNext == SustainedCheckCall

SpecSustained == SpecAlertInit /\ [][SustainedNext]_vars

----------------------------------------------------------------------------
(* Inputs of the fusion engine: modality results as the collaborators      *)
(* produce them, and degraded ones with fields missing or inconsistent.    *)

\* A well-formed ModalityResult.
ModalityResult(score, conf, emotion) ==
    [ stress_score |-> score, confidence |-> conf, emotion |-> emotion,
      stress_level |-> _classify_stress_level(score) ]

EmptyDict == [k \in {} |-> Zero]

FusionScores == { Zero, R(20, 100), R(45, 100), R(80, 100), R(90, 100), One }
FusionConfs  == { Zero, R(20, 100), R(80, 100), R(90, 100), One }

FusionInputs ==
    { ModalityResult(s, c, "angry") : s \in FusionScores, c \in FusionConfs }
    \cup { EmptyDict,
           [ stress_score |-> R(90, 100), confidence |-> R(90, 100) ],
           [ stress_score |-> R(90, 100), stress_level |-> "Low",
             emotion |-> "happy" ],
           [ confidence |-> R(20, 100), emotion |-> "sad" ] }

OptionalInputs == { None } \cup { Some(r) : r \in FusionInputs }

FusionInit ==
    /\ AlertInit
    /\ SessionInit
    /\ ClassifierIdle
    /\ PipelineInit
    /\ audio_result \in OptionalInputs
    /\ video_result \in OptionalInputs
    /\ fused_result = _get_default_result
    /\ fusion_pc = "input"

\* One call fuse_stress_scores(audio_result, video_result).
Fuse ==
    /\ fusion_pc = "input"
    /\ fused_result' = fuse_stress_scores(audio_result, video_result)
    /\ fusion_pc' = "done"
    /\ UNCHANGED <<audio_result, video_result>>
    /\ UNCHANGED <<alertVars, sessionVars, classifierVars, pipelineVars>>

FusionNext == Fuse

SpecFusion == FusionInit /\ [][FusionNext]_vars

----------------------------------------------------------------------------
(* The classifier driven by its callers *)

MaxTrendLen == 3

\* Every score from 0 to 1 in steps of 0.01.
ClassifierScores == { R(k, 100) : k \in 0..100 }

TrendScores == { R(20, 100), R(50, 100), R(52, 100), R(90, 100) }
TrendWindows == { 1, 2, 3, 10 }

\* Every list of at most n scores.
RECURSIVE TrendHistories(_)
TrendHistories(n) ==
    IF n = 0 THEN { <<>> }
    ELSE LET shorter == TrendHistories(n - 1)
         IN  shorter \cup { Append(h, x) : h \in shorter, x \in TrendScores }

ClassifierCalls ==
    { [ op |-> "classify", stress_score |-> x ] : x \in ClassifierScores }
    \cup { [ op |-> "get_stress_trend", stress_history |-> h, window |-> w ] :
             h \in TrendHistories(MaxTrendLen), w \in TrendWindows }

ClassifierInit ==
    /\ AlertInit
    /\ SessionInit
    /\ PipelineInit
    /\ fused_result = _get_default_result
    /\ audio_result = None
    /\ video_result = None
    /\ fusion_pc = "idle"
    /\ classifier_call \in ClassifierCalls
    /\ classifier_result = None

\* One call classify(stress_score).
Classify ==
    /\ classifier_call.op = "classify"
    /\ classifier_result = None
    /\ classifier_result' = Some(classify(classifier_call.stress_score))
    /\ UNCHANGED classifier_call
    /\ UNCHANGED <<fusionVars, alertVars, sessionVars, pipelineVars>>

\* One call get_stress_trend(stress_history, window).
GetStressTrend ==
    /\ classifier_call.op = "get_stress_trend"
    /\ classifier_result = None
    /\ classifier_result' =
          Some(get_stress_trend(classifier_call.stress_history,
                                classifier_call.window))
    /\ UNCHANGED classifier_call
    /\ UNCHANGED <<fusionVars, alertVars, sessionVars, pipelineVars>>

ClassifierNext == Classify \/ GetStressTrend

SpecClassifier == ClassifierInit /\ [][ClassifierNext]_vars

----------------------------------------------------------------------------
(* The session store driven by its callers *)

MaxUpdates == 4

\* The ids uuid4 hands out, in this order.
Uuids == { 1, 2 }

\* The instants at which the wall clock is read.
ClockTimes == { R(0, 1), R(1, 1) }

\* Ids a caller may pass: every id uuid4 can hand out, and 0, which stands
\* for any key uuid4 never hands out (a foreign id, or None).
SessionIds == { 0 } \cup Uuids

\* Ids a caller can hold at this moment: those handed out so far, and 0.
IssuedIds == 1..(next_uuid - 1)
CallerIds == { 0 } \cup IssuedIds

WorkerIds == { None }

\* Fused results the pipeline passes to update_session: audio alone (0.9,
\* High, angry), video alone (0.2, Low, happy), and the two fused with
\* equal confidences (0.55, Medium).
SessionAudio == { None, Some(ModalityResult(R(9, 10), R(8, 10), "angry")) }
SessionVideo == { None, Some(ModalityResult(R(2, 10), R(8, 10), "happy")) }
SessionFused ==
    { fuse_stress_scores(a, v) :
        <<a, v>> \in { p \in SessionAudio \X SessionVideo :
                          p[1] # None \/ p[2] # None } }

\* create_session(worker_id)
create_session(worker_id) ==
    /\ next_uuid \in Uuids
    /\ sessions' = (next_uuid :> NewSession(next_uuid, worker_id, now))
                   @@ sessions
    /\ next_uuid' = next_uuid + 1
    /\ update_log' = (next_uuid :> <<>>) @@ update_log
    /\ UNCHANGED <<now, n_updates>>

\* update_session(session_id, fused_result)
ApplyUpdate(session_id, fused) ==
    LET known   == session_id \in DOMAIN sessions
        target  == UpdateTarget(session_id)
        session == IF known THEN sessions[session_id]
                   ELSE NewSession(target, None, now)
        log     == IF known THEN update_log[session_id] ELSE <<>>
    IN  /\ known \/ next_uuid \in Uuids
        /\ n_updates' = n_updates + 1
        /\ sessions' = (target :> AppliedUpdate(session, fused, now))
                       @@ sessions
        /\ next_uuid' = IF known THEN next_uuid ELSE next_uuid + 1
        /\ update_log' = (target :> Append(log, HistoryEntry(fused, now)))
                         @@ update_log
        /\ UNCHANGED now

\* update_session(session_id, fused_result), at most MaxUpdates times
update_session(session_id, fused) ==
    /\ n_updates < MaxUpdates
    /\ ApplyUpdate(session_id, fused)

\* end_session(session_id)
end_session(session_id) ==
    /\ sessions' =
          IF session_id \in DOMAIN sessions
          THEN [ sessions EXCEPT ![session_id] =
                    ("end_time" :> now)
                    @@ [ k \in DOMAIN @ \ {"end_time"} |->
                           IF k = "status" THEN "ended" ELSE @[k] ] ]
          ELSE sessions
    /\ UNCHANGED <<next_uuid, now, update_log, n_updates>>

\* delete_session(session_id)
delete_session(session_id) ==
    /\ sessions' = [ k \in DOMAIN sessions \ {session_id} |-> sessions[k] ]
    /\ update_log' =
          [ k \in DOMAIN update_log \ {session_id} |-> update_log[k] ]
    /\ UNCHANGED <<next_uuid, now, n_updates>>

\* get_session_info(session_id) and get_stress_timeline(session_id, limit)
\* read the store and leave it alone.
get_session_info(session_id) ==
    UNCHANGED <<sessions, next_uuid, now, update_log, n_updates>>

get_stress_timeline(session_id, limit) ==
    UNCHANGED <<sessions, next_uuid, now, update_log, n_updates>>

\* Calls whose return value the caller drops.
CreateSessionCall ==
    \E w \in WorkerIds :
        /\ create_session(w)
        /\ UNCHANGED session_call
        /\ UNCHANGED <<fusionVars, alertVars, classifierVars, pipelineVars>>

UpdateSessionCall ==
    \E s \in CallerIds, f \in SessionFused :
        /\ update_session(s, f)
        /\ UNCHANGED session_call
        /\ UNCHANGED <<fusionVars, alertVars, classifierVars, pipelineVars>>

EndSessionCall ==
    \E s \in CallerIds :
        /\ end_session(s)
        /\ UNCHANGED session_call
        /\ UNCHANGED <<fusionVars, alertVars, classifierVars, pipelineVars>>

DeleteSessionCall ==
    \E s \in CallerIds :
        /\ delete_session(s)
        /\ UNCHANGED session_call
        /\ UNCHANGED <<fusionVars, alertVars, classifierVars, pipelineVars>>

\* The wall clock advances.
Tick ==
    /\ \E t \in ClockTimes : RLt(now, t) /\ now' = t
    /\ UNCHANGED <<sessions, next_uuid, update_log, n_updates, session_call>>
    /\ UNCHANGED <<fusionVars, alertVars, classifierVars, pipelineVars>>

SessionNext ==
    \/ CreateSessionCall
    \/ UpdateSessionCall
    \/ EndSessionCall
    \/ DeleteSessionCall
    \/ Tick

Init ==
    /\ SessionInit
    /\ AlertInit
    /\ ClassifierIdle
    /\ PipelineInit
    /\ fused_result = _get_default_result
    /\ audio_result = None
    /\ video_result = None
    /\ fusion_pc = "idle"

Next == SessionNext

Spec == Init /\ [][Next]_vars

----------------------------------------------------------------------------
(* The session store driven by callers that keep what the calls return: *)
(* session_call holds the last call, its arguments and its return value. *)

MaxQueryUpdates == 2

\* The limits a caller passes to get_stress_timeline (the default is 100).
TimelineLimits == { 0, 1, 100 }

\* Fused results these callers pass: audio alone (0.9, High, angry) and
\* video alone (0.2, Low, happy).
QueryFused ==
    { f \in SessionFused : f.fusion_method = "single_modality" }

CreateSessionReturn ==
    \E w \in WorkerIds :
        /\ create_session(w)
        /\ session_call' = [ op |-> "create_session", ret |-> next_uuid ]
        /\ UNCHANGED <<fusionVars, alertVars, classifierVars, pipelineVars>>

\* update_session returns get_session_info of the session it worked on.
UpdateSessionReturn ==
    \E s \in CallerIds, f \in QueryFused :
        /\ n_updates < MaxQueryUpdates
        /\ update_session(s, f)
        /\ session_call' =
              [ op |-> "update_session", session_id |-> s,
                fused_result |-> f,
                known |-> s \in DOMAIN sessions,
                target |-> UpdateTarget(s),
                ret |-> SessionInfo(sessions', UpdateTarget(s), now) ]
        /\ UNCHANGED <<fusionVars, alertVars, classifierVars, pipelineVars>>

EndSessionReturn ==
    \E s \in CallerIds :
        /\ end_session(s)
        /\ session_call' = [ op |-> "end_session", session_id |-> s,
                             known |-> s \in DOMAIN sessions ]
        /\ UNCHANGED <<fusionVars, alertVars, classifierVars, pipelineVars>>

DeleteSessionReturn ==
    \E s \in CallerIds :
        /\ delete_session(s)
        /\ session_call' = [ op |-> "delete_session", session_id |-> s,
                             known |-> s \in DOMAIN sessions ]
        /\ UNCHANGED <<fusionVars, alertVars, classifierVars, pipelineVars>>

GetSessionInfoReturn ==
    \E s \in CallerIds :
        /\ get_session_info(s)
        /\ session_call' = [ op |-> "get_session_info", session_id |-> s,
                             known |-> s \in DOMAIN sessions,
                             ret |-> SessionInfo(sessions, s, now) ]
        /\ UNCHANGED <<fusionVars, alertVars, classifierVars, pipelineVars>>

GetStressTimelineReturn ==
    \E s \in CallerIds, limit \in TimelineLimits :
        /\ get_stress_timeline(s, limit)
        /\ session_call' = [ op |-> "get_stress_timeline", session_id |-> s,
                             limit |-> limit,
                             known |-> s \in DOMAIN sessions,
                             ret |-> StressTimeline(sessions, s, limit) ]
        /\ UNCHANGED <<fusionVars, alertVars, classifierVars, pipelineVars>>

QueryNext ==
    \/ CreateSessionReturn
    \/ UpdateSessionReturn
    \/ EndSessionReturn
    \/ DeleteSessionReturn
    \/ GetSessionInfoReturn
    \/ GetStressTimelineReturn
    \/ Tick

QueryInit == Init

SpecQuery == QueryInit /\ [][QueryNext]_vars

----------------------------------------------------------------------------
(* Two sessions fed long enough for one of them to evict an entry while    *)
(* the other holds the same entries without having evicted any, with every *)
(* kind of fused result.                                                   *)

MaxAnalyticsUpdates == 5

\* Audio (0.9, angry) of low confidence and video (0.2, happy) of high
\* confidence.
UnsureAudio == ModalityResult(R(9, 10), R(2, 10), "angry")
SureVideo   == ModalityResult(R(2, 10), R(8, 10), "happy")

\* An audio result whose emotion is a list.
ListAudio ==
    [ ModalityResult(R(9, 10), R(8, 10), "angry") EXCEPT
        !.emotion = ListEmotion ]

\* Fused results with audio alone, video alone, both, none, and audio with
\* a list for its emotion.
AnalyticsFused ==
    QueryFused
    \cup { fuse_stress_scores(Some(UnsureAudio), Some(SureVideo)),
           fuse_stress_scores(None, None),
           fuse_stress_scores(Some(ListAudio), None) }

AnalyticsUpdateCall ==
    \E s \in IssuedIds \cap DOMAIN sessions, f \in AnalyticsFused :
        /\ n_updates < MaxAnalyticsUpdates
        /\ ApplyUpdate(s, f)
        /\ session_call' =
              [ op |-> "update_session", session_id |-> s,
                fused_result |-> f,
                raised |-> IF IsHashable(HistoryEntry(f, now).emotion)
                           THEN None ELSE Some("TypeError") ]
        /\ UNCHANGED <<fusionVars, alertVars, classifierVars, pipelineVars>>

AnalyticsNext == CreateSessionCall \/ AnalyticsUpdateCall

SpecAnalytics == Init /\ [][AnalyticsNext]_vars

----------------------------------------------------------------------------
(* websocket_handler.py, app.py : the handlers of the socket events, each  *)
(* run by the server in a task of its own.                                 *)
(*                                                                         *)
(* handlers[r] is the invocation of handle_fusion_request for the r-th     *)
(* fusion_request event, with the local variables of the handler and of    *)
(* the update_session call it makes, and pc, the statement it is at:       *)
(*   "update_test"    session_manager.py 55-57  membership test, creation  *)
(*   "update_load"    session_manager.py 59     session = sessions[id]     *)
(*   "update_apply"   session_manager.py 62-94  the session is updated     *)
(*   "update_return"  session_manager.py 96     get_session_info           *)
(*   "check_alerts"   websocket_handler.py 212  alert_manager.check_alerts *)
(*   "emit"           websocket_handler.py 218  the results are emitted    *)
(*   "except"         websocket_handler.py 228  the error is emitted       *)
(*   "done"                                                                *)

MaxRequests == 2

\* The socket ids of the clients.
Sids == { "a", "b" }

\* A modality result of a client message that is not a dict: it has no
\* get(), and fuse_stress_scores raises AttributeError on it.
NotADict == [ not_a_dict |-> TRUE ]
IsDict(x) == "not_a_dict" \notin DOMAIN x

\* The modality results the fusion_request events carry, <<audio, video>>:
\* audio alone (0.9), video alone (0.2), and an audio result that is not a
\* dict.
RequestInputs ==
    { p \in SessionAudio \X SessionVideo : (p[1] = None) # (p[2] = None) }
    \cup { <<Some(NotADict), None>> }

\* A bug: the handlers run on preemptive threads, which lose the processor
\* at any statement.
YieldsAnywhere(pc) == TRUE

\* The server is built with async_mode='eventlet': a handler keeps the
\* processor until it blocks, and the only blocking calls of
\* handle_fusion_request are its emits.
Yields(pc) == pc \in { "emit", "except", "done" }

\* The handler of request r may take a step.
CanRun(r) == running \in { 0, r }

\* The holder of the processor after such a step.
Holder(r, pc) == IF Yields(pc) THEN 0 ELSE r

Requests == 1..Len(handlers)

\* The scores of the fusion events in a list of requests.
RequestScores(rs) ==
    [ i \in 1..Len(rs) |->
        Get(handlers[rs[i]].fused_result, "stress_score", Half) ]

\* app.handle_connect and WebSocketHandler.handle_connect: the session is
\* created, session_created is emitted with its id, the socket is bound to
\* it.
HandleConnect(sid) ==
    /\ running = 0
    /\ sid \notin DOMAIN session_mappings
    /\ create_session(None)
    /\ session_mappings' = (sid :> next_uuid) @@ session_mappings
    /\ accepted' = (next_uuid :> <<>>) @@ accepted
    /\ announced' = (next_uuid :> (Get(announced, next_uuid, 0) + 1))
                    @@ announced
    /\ UNCHANGED <<handlers, running, session_call, pull_query>>
    /\ UNCHANGED <<fusionVars, alertVars, classifierVars>>

\* app.handle_fusion_request and websocket_handler.py 200-206: the session
\* id bound to the socket is read (session_mappings.get(sid): None, here 0,
\* for a socket that has no session bound) and the two modality results
\* are fused; the event is accepted when they can be.
HandleFusionRequest(sid, audio, video) ==
    LET r == Len(handlers) + 1
        session_id == Get(session_mappings, sid, 0)
        raises == \/ audio # None /\ ~IsDict(audio[1])
                  \/ video # None /\ ~IsDict(video[1])
        pc == IF raises THEN "except" ELSE "update_test"
    IN  /\ running = 0
        /\ r <= MaxRequests
        /\ handlers' = Append(handlers,
              [ sid          |-> sid,
                session_id   |-> session_id,
                fused_result |-> IF raises THEN _get_default_result
                                 ELSE fuse_stress_scores(audio, video),
                pc           |-> pc,
                known        |-> FALSE,
                target       |-> session_id,
                session_info |-> None,
                alerts       |-> <<>>,
                emitted      |-> <<>>,
                error        |-> IF raises THEN Some("AttributeError")
                                 ELSE None ])
        /\ accepted' = IF raises THEN accepted
                       ELSE (session_id :> Append(Get(accepted, session_id,
                                                      <<>>), r))
                            @@ accepted
        /\ running' = Holder(r, pc)
        /\ UNCHANGED <<session_mappings, announced, pull_query>>
        /\ UNCHANGED <<fusionVars, alertVars, sessionVars, classifierVars>>

\* session_manager.py 55-57
UpdateTest(r) ==
    LET h == handlers[r]
        known == h.session_id \in DOMAIN sessions
    IN  /\ h.pc = "update_test"
        /\ CanRun(r)
        /\ IF known
           THEN UNCHANGED <<sessions, next_uuid, now, update_log, n_updates>>
           ELSE create_session(None)
        /\ handlers' = [ handlers EXCEPT
              ![r].known = known,
              ![r].target = UpdateTarget(h.session_id),
              ![r].pc = "update_load" ]
        /\ running' = Holder(r, "update_load")
        /\ UNCHANGED <<session_mappings, accepted, announced, pull_query>>
        /\ UNCHANGED session_call
        /\ UNCHANGED <<fusionVars, alertVars, classifierVars>>

\* session_manager.py 59: a key that is gone raises KeyError.
UpdateLoad(r) ==
    LET h == handlers[r]
        pc == IF h.target \in DOMAIN sessions THEN "update_apply"
              ELSE "except"
    IN  /\ h.pc = "update_load"
        /\ CanRun(r)
        /\ handlers' = [ handlers EXCEPT
              ![r].pc = pc,
              ![r].error = IF pc = "except" THEN Some("KeyError") ELSE None ]
        /\ running' = Holder(r, pc)
        /\ UNCHANGED <<session_mappings, accepted, announced, pull_query>>
        /\ UNCHANGED <<fusionVars, alertVars, sessionVars, classifierVars>>

\* session_manager.py 62-94: the dict loaded is updated; when it was deleted
\* from the store meanwhile, the store does not see the update.
UpdateApply(r) ==
    LET h == handlers[r]
        t == h.target
        pc == IF IsHashable(HistoryEntry(h.fused_result, now).emotion)
              THEN "update_return" ELSE "except"
    IN  /\ h.pc = "update_apply"
        /\ CanRun(r)
        /\ n_updates < MaxUpdates
        /\ n_updates' = n_updates + 1
        /\ IF t \in DOMAIN sessions
           THEN /\ sessions' = [ sessions EXCEPT ![t] =
                                   AppliedUpdate(@, h.fused_result, now) ]
                /\ update_log' = [ update_log EXCEPT ![t] =
                      Append(@, HistoryEntry(h.fused_result, now)) ]
           ELSE UNCHANGED <<sessions, update_log>>
        /\ handlers' = [ handlers EXCEPT
              ![r].pc = pc,
              ![r].error = IF pc = "except" THEN Some("TypeError") ELSE None ]
        /\ running' = Holder(r, pc)
        /\ UNCHANGED <<next_uuid, now, session_call>>
        /\ UNCHANGED <<session_mappings, accepted, announced, pull_query>>
        /\ UNCHANGED <<fusionVars, alertVars, classifierVars>>

\* session_manager.py 96
UpdateReturn(r) ==
    LET h == handlers[r]
    IN  /\ h.pc = "update_return"
        /\ CanRun(r)
        /\ handlers' = [ handlers EXCEPT
              ![r].session_info = SessionInfo(sessions, h.target, now),
              ![r].pc = "check_alerts" ]
        /\ running' = Holder(r, "check_alerts")
        /\ UNCHANGED <<session_mappings, accepted, announced, pull_query>>
        /\ UNCHANGED <<fusionVars, alertVars, sessionVars, classifierVars>>

\* websocket_handler.py 212-215: the alerts of the session id of the event
\* are checked at the current time.
CheckAlertsStep(r) ==
    LET h == handlers[r]
    IN  /\ h.pc = "check_alerts"
        /\ CanRun(r)
        /\ check_alerts(h.session_id,
                        Get(h.fused_result, "stress_score", Half), now)
        /\ handlers' = [ handlers EXCEPT
              ![r].alerts = returned_alerts',
              ![r].pc = "emit" ]
        /\ running' = Holder(r, "emit")
        /\ UNCHANGED <<session_mappings, accepted, announced, pull_query>>
        /\ UNCHANGED <<fusionVars, sessionVars, classifierVars>>

\* websocket_handler.py 218-226
Emit(r) ==
    LET h == handlers[r]
    IN  /\ h.pc = "emit"
        /\ CanRun(r)
        /\ handlers' = [ handlers EXCEPT
              ![r].emitted =
                  <<"stress_update", "session_update">>
                  \o [ i \in 1..Len(h.alerts) |-> "alert" ],
              ![r].pc = "done" ]
        /\ running' = Holder(r, "done")
        /\ UNCHANGED <<session_mappings, accepted, announced, pull_query>>
        /\ UNCHANGED <<fusionVars, alertVars, sessionVars, classifierVars>>

\* websocket_handler.py 228-230
Except(r) ==
    LET h == handlers[r]
    IN  /\ h.pc = "except"
        /\ CanRun(r)
        /\ handlers' = [ handlers EXCEPT
              ![r].emitted = <<"error">>,
              ![r].pc = "done" ]
        /\ running' = Holder(r, "done")
        /\ UNCHANGED <<session_mappings, accepted, announced, pull_query>>
        /\ UNCHANGED <<fusionVars, alertVars, sessionVars, classifierVars>>

\* A caller of the store deletes a session while requests are served.
DeleteSessionTask ==
    \E s \in IssuedIds :
        /\ running = 0
        /\ s \in DOMAIN sessions
        /\ delete_session(s)
        /\ UNCHANGED <<session_call, pipelineVars>>
        /\ UNCHANGED <<fusionVars, alertVars, classifierVars>>

HandleConnectEvent == \E sid \in Sids : HandleConnect(sid)

HandleFusionRequestEvent ==
    \E sid \in Sids, p \in RequestInputs :
        HandleFusionRequest(sid, p[1], p[2])

UpdateTestStep == \E r \in Requests : UpdateTest(r)
UpdateLoadStep == \E r \in Requests : UpdateLoad(r)
UpdateApplyStep == \E r \in Requests : UpdateApply(r)
UpdateReturnStep == \E r \in Requests : UpdateReturn(r)
CheckAlertsOfRequest == \E r \in Requests : CheckAlertsStep(r)
EmitStep == \E r \in Requests : Emit(r)
ExceptStep == \E r \in Requests : Except(r)

PipelineNext ==
    \/ HandleConnectEvent
    \/ HandleFusionRequestEvent
    \/ UpdateTestStep
    \/ UpdateLoadStep
    \/ UpdateApplyStep
    \/ UpdateReturnStep
    \/ CheckAlertsOfRequest
    \/ EmitStep
    \/ ExceptStep
    \/ DeleteSessionTask
    \/ Tick

SpecPipeline == Init /\ [][PipelineNext]_vars

----------------------------------------------------------------------------
(* websocket_handler.py : the handlers of the pull queries.  They make one *)
(* call of the store and emit its answer; nothing in them blocks before    *)
(* the emit.                                                               *)

\* The value of the 'limit' key of a get_timeline message: a JSON number or
\* a JSON string.
IntLimit(n) == [ int |-> n ]
NotAnInt == [ str |-> "ten" ]
IsInt(x) == "int" \in DOMAIN x

\* The 'limit' of the messages the clients send: None when the key is
\* absent.
LimitPayloads ==
    { None, Some(IntLimit(0)), Some(IntLimit(1)), Some(NotAnInt) }

\* handle_get_session_info: app.py binds data['session_id'] to the session
\* of the socket.
HandleGetSessionInfo(sid) ==
    LET session_id == Get(session_mappings, sid, 0)
        session_info == SessionInfo(sessions, session_id, now)
    IN  /\ running = 0
        /\ sid \in DOMAIN session_mappings
        /\ get_session_info(session_id)
        /\ pull_query' =
              [ op         |-> "get_session_info",
                session_id |-> session_id,
                known      |-> session_id \in DOMAIN sessions,
                limit      |-> None,
                emitted    |-> IF session_info # None THEN <<"session_info">>
                               ELSE <<"error">>,
                raised     |-> None ]
        /\ UNCHANGED <<session_mappings, handlers, running, accepted,
                       announced, session_call>>
        /\ UNCHANGED <<fusionVars, alertVars, classifierVars>>

\* handle_get_timeline: limit = data.get('limit', 100).  In
\* get_stress_timeline, len(history) > limit raises TypeError when limit is
\* not a number; the handler has no try, the exception leaves it.
HandleGetTimeline(sid, limit_payload) ==
    LET session_id == Get(session_mappings, sid, 0)
        known == session_id \in DOMAIN sessions
        limit == IF limit_payload = None THEN IntLimit(100)
                 ELSE limit_payload[1]
        raises == known /\ ~IsInt(limit)
    IN  /\ running = 0
        /\ sid \in DOMAIN session_mappings
        /\ get_stress_timeline(session_id, limit)
        /\ pull_query' =
              [ op         |-> "get_timeline",
                session_id |-> session_id,
                known      |-> known,
                limit      |-> Some(limit),
                emitted    |-> IF raises THEN <<>> ELSE <<"timeline_data">>,
                raised     |-> IF raises THEN Some("TypeError") ELSE None ]
        /\ UNCHANGED <<session_mappings, handlers, running, accepted,
                       announced, session_call>>
        /\ UNCHANGED <<fusionVars, alertVars, classifierVars>>

HandleGetSessionInfoEvent == \E sid \in Sids : HandleGetSessionInfo(sid)

HandleGetTimelineEvent ==
    \E sid \in Sids, limit \in LimitPayloads : HandleGetTimeline(sid, limit)

PullNext ==
    \/ HandleConnectEvent
    \/ HandleFusionRequestEvent
    \/ UpdateTestStep
    \/ UpdateLoadStep
    \/ UpdateApplyStep
    \/ UpdateReturnStep
    \/ CheckAlertsOfRequest
    \/ EmitStep
    \/ ExceptStep
    \/ DeleteSessionTask
    \/ HandleGetSessionInfoEvent
    \/ HandleGetTimelineEvent
    \/ Tick

SpecPull == Init /\ [][PullNext]_vars

----------------------------------------------------------------------------
(* Properties of the fusion engine, checked under SpecFusion *)

FusionDone   == fusion_pc = "done"
AudioPresent == audio_result # None
VideoPresent == video_result # None
BothPresent  == AudioPresent /\ VideoPresent
BothAbsent   == ~AudioPresent /\ ~VideoPresent
ExactlyOnePresent == AudioPresent # VideoPresent

\* The inputs that were present, audio first.
PresentModalities ==
    (IF AudioPresent THEN <<"audio">> ELSE <<>>)
    \o (IF VideoPresent THEN <<"video">> ELSE <<>>)

\* C7: modalities_used is exactly the set of inputs that were present; both
\* absent gives the 'none' result (score 0.5, Medium, confidence 0, empty
\* modalities_used, error marker), exactly one present gives
\* 'single_modality' with that modality only, both present gives the
\* confidence-weighted result with both; modalities_used is empty only when
\* both inputs are absent.
C7_ModalitiesUsedExact ==
    FusionDone =>
        /\ fused_result.modalities_used = PresentModalities
        /\ ("audio" \in DOMAIN fused_result) <=> AudioPresent
        /\ ("video" \in DOMAIN fused_result) <=> VideoPresent
        /\ (fused_result.modalities_used = <<>>) <=> BothAbsent
        /\ BothAbsent =>
              /\ fused_result.fusion_method = "none"
              /\ fused_result.stress_score = R(5, 10)
              /\ fused_result.stress_level = "Medium"
              /\ fused_result.confidence = R(0, 1)
              /\ "error" \in DOMAIN fused_result
        /\ ExactlyOnePresent =>
              /\ fused_result.fusion_method = "single_modality"
              /\ "error" \notin DOMAIN fused_result
        /\ BothPresent =>
              /\ fused_result.fusion_method = "confidence_weighted_average"
              /\ "error" \notin DOMAIN fused_result

\* An input that is present but carries no field at all still counts.
C7_Witness ==
    /\ FusionDone
    /\ audio_result = Some(EmptyDict)
    /\ video_result = None
    /\ fused_result.modalities_used = <<"audio">>

\* The one input of a single-modality call.
SingleInput == IF AudioPresent THEN audio_result[1] ELSE video_result[1]

\* Scenario 1: an audio result with score 0.9 and confidence 0.9.
Scenario1Audio == ModalityResult(R(9, 10), R(9, 10), "angry")

\* C8: with exactly one modality present the fused stress_score,
\* stress_level and confidence equal that modality's values unchanged; an
\* audio-only input with score 0.9 and confidence 0.9 yields
\* modalities_used = [audio], single-modality method, score 0.9, level High.
C8_SinglePassThrough ==
    (FusionDone /\ ExactlyOnePresent) =>
        /\ \A k \in {"stress_score", "stress_level", "confidence"} :
              k \in DOMAIN SingleInput => fused_result[k] = SingleInput[k]
        /\ (audio_result = Some(Scenario1Audio)) =>
              /\ fused_result.modalities_used = <<"audio">>
              /\ fused_result.fusion_method = "single_modality"
              /\ fused_result.stress_score = R(9, 10)
              /\ fused_result.confidence = R(9, 10)
              /\ fused_result.stress_level = "High"

C8_Witness ==
    /\ FusionDone
    /\ audio_result = Some(Scenario1Audio)
    /\ video_result = None
    /\ fused_result.stress_level = "High"

\* The values the weighting reads from the two inputs (0.5 when missing).
AudioConf  == Get(audio_result[1], "confidence", Half)
VideoConf  == Get(video_result[1], "confidence", Half)
AudioScore == Get(audio_result[1], "stress_score", Half)
VideoScore == Get(video_result[1], "stress_score", Half)

\* C9: with both modalities present each weight is the modality's
\* confidence divided by the sum of both confidences, and exactly 0.5/0.5
\* when both confidences are zero; the fused score is the weighted sum of
\* the two scores under the weights the result carries, the fused
\* confidence is the mean of the two confidences, the weights sum to 1.
C9_ConfidenceWeights ==
    (FusionDone /\ BothPresent) =>
        LET total == RAdd(AudioConf, VideoConf)
            w     == fused_result.weights
        IN  /\ (total = Zero) =>
                  (w.audio = R(1, 2) /\ w.video = R(1, 2))
            /\ (total # Zero) =>
                  /\ RMul(w.audio, total) = AudioConf
                  /\ RMul(w.video, total) = VideoConf
            /\ RAdd(w.audio, w.video) = One
            /\ fused_result.stress_score =
                  RAdd(RMul(w.audio, AudioScore), RMul(w.video, VideoScore))
            /\ RAdd(fused_result.confidence, fused_result.confidence) = total

\* Both confidences are zero and the split is even.
C9_Witness ==
    /\ FusionDone
    /\ BothPresent
    /\ AudioConf = Zero
    /\ VideoConf = Zero
    /\ AudioScore # VideoScore
    /\ fused_result.weights = [ audio |-> Half, video |-> Half ]

\* C10: passing two results as (audio = a, video = b) or as (audio = b,
\* video = a) yields the same fused stress_score, confidence, stress_level
\* and modality_agreement, with the per-modality echoes and weights
\* swapped; with equal confidences the fused score is the mean of the two
\* scores, so swapping the scores leaves it unchanged.
C10_FusionSymmetric ==
    (FusionDone /\ BothPresent) =>
        LET swapped == fuse_stress_scores(video_result, audio_result)
        IN  /\ swapped.stress_score = fused_result.stress_score
            /\ swapped.confidence = fused_result.confidence
            /\ swapped.stress_level = fused_result.stress_level
            /\ swapped.modality_agreement = fused_result.modality_agreement
            /\ swapped.weights.audio = fused_result.weights.video
            /\ swapped.weights.video = fused_result.weights.audio
            /\ swapped.audio = fused_result.video
            /\ swapped.video = fused_result.audio
            /\ (AudioConf = VideoConf) =>
                  RAdd(fused_result.stress_score, fused_result.stress_score)
                      = RAdd(AudioScore, VideoScore)

\* Two results that differ in score and in confidence were fused.
C10_Witness ==
    /\ FusionDone
    /\ BothPresent
    /\ RLt(AudioScore, VideoScore)
    /\ RGt(AudioConf, VideoConf)
    /\ fused_result.modality_agreement = "low"

\* Scenario 2: audio (score 0.2, confidence 0.8), video (score 0.8,
\* confidence 0.2).
Scenario2Audio == ModalityResult(R(2, 10), R(8, 10), "angry")
Scenario2Video == ModalityResult(R(8, 10), R(2, 10), "angry")

Scenario2Fused ==
    /\ FusionDone
    /\ audio_result = Some(Scenario2Audio)
    /\ video_result = Some(Scenario2Video)

\* The agreement label of two scores by the stated bands: high when they
\* differ by less than 0.10, medium when by less than 0.30, otherwise low.
AgreementBand(x, y) ==
    LET lo == IF RLt(x, y) THEN x ELSE y
        hi == IF RLt(x, y) THEN y ELSE x
    IN  IF RLt(hi, RAdd(lo, R(10, 100))) THEN "high"
        ELSE IF RLt(hi, RAdd(lo, R(30, 100))) THEN "medium"
        ELSE "low"

LevelOfScore(score) ==
    IF RLt(score, R(33, 100)) THEN "Low"
    ELSE IF RLt(score, R(66, 100)) THEN "Medium"
    ELSE "High"

----------------------------------------------------------------------------
(* Properties of the classifier, checked under SpecClassifier *)

ClassifyDone ==
    classifier_call.op = "classify" /\ classifier_result # None
TrendDone ==
    classifier_call.op = "get_stress_trend" /\ classifier_result # None

\* Low < Medium < High
Severity(level) ==
    CASE level = "Low" -> 1 [] level = "Medium" -> 2 [] level = "High" -> 3
      [] OTHER -> 0

\* C13: for every score in [0,1] classify returns exactly one of Low,
\* Medium, High, with Low iff score < 0.33, Medium iff 0.33 <= score < 0.66
\* and High iff score >= 0.66; the level is monotonic non-decreasing in the
\* score; the fusion engine's own classification returns the same level.
C13_ClassifyBands ==
    ClassifyDone =>
        LET score == classifier_call.stress_score
            level == classifier_result[1].level
        IN  /\ level \in {"Low", "Medium", "High"}
            /\ (level = "Low") <=> RLt(score, R(33, 100))
            /\ (level = "Medium") <=>
                  (RGe(score, R(33, 100)) /\ RLt(score, R(66, 100)))
            /\ (level = "High") <=> RGe(score, R(66, 100))
            /\ \A lower \in ClassifierScores :
                  RLt(lower, score) =>
                      Severity(classify(lower).level) <= Severity(level)
            /\ _classify_stress_level(score) = level

\* The score 0.33 itself was classified, as Medium.
C13_Witness ==
    /\ ClassifyDone
    /\ classifier_call.stress_score = R(33, 100)
    /\ classifier_result[1].level = "Medium"

\* The last min(window, len) samples of the history of the trend call.
TrendRecent ==
    LET h == classifier_call.stress_history
        n == Len(h)
        k == IF classifier_call.window < n THEN classifier_call.window ELSE n
    IN  SubSeq(h, n - k + 1, n)

\* The mean of a non-empty list of scores.
Mean(xs) == RDiv(RSum(xs), R(Len(xs), 1))

\* C14: get_stress_trend never raises: for every history, the empty and
\* the single-element one included, and every window size >= 1 it returns
\* a well-formed result, which is insufficient_data when fewer than 2
\* samples exist and otherwise stable, increasing or decreasing from
\* comparing the means of the two halves of the last min(window, len)
\* samples (stable when |change| < 0.05).
C14_TrendNeverRaises ==
    TrendDone =>
        LET result == classifier_result[1]
            n      == Len(classifier_call.stress_history)
            half   == Len(TrendRecent) \div 2
            first  == SubSeq(TrendRecent, 1, half)
            second == SubSeq(TrendRecent, half + 1, Len(TrendRecent))
        IN  /\ "raised" \notin DOMAIN result
            /\ {"trend", "direction", "change"} \subseteq DOMAIN result
            /\ (n < 2) <=> (result.trend = "insufficient_data")
            /\ (n >= 2) =>
                  result.trend \in {"stable", "increasing", "decreasing"}
            /\ (n >= 2 /\ first # <<>> /\ second # <<>>) =>
                  LET change == RSub(Mean(second), Mean(first))
                  IN  result.trend =
                         IF RLt(RAbs(change), R(5, 100)) THEN "stable"
                         ELSE IF RLt(Zero, change) THEN "increasing"
                         ELSE "decreasing"

----------------------------------------------------------------------------
(* Properties of the alert manager, checked under SpecAlert *)

LastWasCheck == last_call.op = "check_alerts"
ReturnedTypes == AlertTypes(returned_alerts)
SustainedReturned == "sustained_high_stress" \in ReturnedTypes
SpikeReturned == "sudden_stress_spike" \in ReturnedTypes

\* C2: for any session the sustained_high_stress alert is returned at most
\* once between one clear_session and the next clear_session of that
\* session, however many samples are at or above the threshold and also
\* when stress drops and rises again in between.
C2_SustainedAtMostOnce ==
    \A s \in AlertSessionIds : sustained_count[s] <= 1

\* The alert has fired, stress dropped and rose again, the sustained
\* condition holds on the newest sample, and no second alert is returned.
C2_Witness ==
    /\ LastWasCheck
    /\ last_call.sustained
    /\ last_call.sustained_before = 1
    /\ ~SustainedReturned
    /\ \E i \in 1..Len(session_history[last_call.session_id]) :
          RLt(session_history[last_call.session_id][i].score,
              ALERT_HIGH_STRESS_THRESHOLD)

\* C3: for any session, two check_alerts calls that carry the identical
\* timestamp never both return a sudden_stress_spike alert without a
\* clear_session in between.
C3_SpikeOncePerTimestamp ==
    \A s \in AlertSessionIds :
        \A t \in DOMAIN spike_count[s] : spike_count[s][t] <= 1

\* A spike sample is fed again with the timestamp of a spike alert that
\* was returned, and no alert is returned for it.
C3_Witness ==
    /\ LastWasCheck
    /\ last_call.spike
    /\ last_call.timestamp \in DOMAIN spike_count[last_call.session_id]
    /\ last_call.timestamp \in last_call.earlier_spikes
    /\ ~SpikeReturned

\* C4 as stated: every check_alerts call whose sample qualifies as a spike
\* and whose timestamp differs from the timestamp of every earlier spike
\* sample of the session returns a sudden_stress_spike alert.
C4_DistinctTimestampsAlert ==
    (LastWasCheck /\ last_call.spike
        /\ last_call.timestamp \notin last_call.earlier_spikes)
    => SpikeReturned

\* C4 as amended: every check_alerts call whose sample qualifies as a spike
\* and whose timestamp lies in another whole second, int(timestamp), than
\* every earlier spike sample of the session returns a sudden_stress_spike
\* alert.
C4_DistinctSecondsAlert ==
    (LastWasCheck /\ last_call.spike
        /\ RInt(last_call.timestamp)
              \notin { RInt(t) : t \in last_call.earlier_spikes })
    => SpikeReturned

\* A second spike, in another second than the first, is alerted.
C4_Witness ==
    /\ LastWasCheck
    /\ last_call.spike
    /\ last_call.earlier_spikes # {}
    /\ RInt(last_call.timestamp)
          \notin { RInt(t) : t \in last_call.earlier_spikes }
    /\ SpikeReturned

\* The seconds between the earliest and the latest sample of a session.
RECURSIVE RMax(_)
RMax(S) ==
    LET x == CHOOSE y \in S : TRUE
    IN  IF S = {x} THEN x
        ELSE LET m == RMax(S \ {x}) IN IF RLt(m, x) THEN x ELSE m

RECURSIVE RMin(_)
RMin(S) ==
    LET x == CHOOSE y \in S : TRUE
    IN  IF S = {x} THEN x
        ELSE LET m == RMin(S \ {x}) IN IF RLt(x, m) THEN x ELSE m

SampleSpan(s) == RSub(RMax(sample_times[s]), RMin(sample_times[s]))

\* C5: no sustained_high_stress alert is returned for a session whose
\* samples so far span less than ALERT_HIGH_STRESS_DURATION seconds.
C5_NoSustainedBeforeDuration ==
    (LastWasCheck /\ SustainedReturned)
    => RGe(SampleSpan(last_call.session_id),
           R(ALERT_HIGH_STRESS_DURATION, 1))

\* C6: clear_session(id) resets both the rolling window and the fired-key
\* set of the session to empty and re-arms the alert: a check_alerts call
\* whose window satisfies the sustained condition returns the sustained
\* alert if and only if none was returned since the last clear_session of
\* the session.
C6_ClearRearms ==
    /\ (last_call.op = "clear_session") =>
          /\ last_call.session_id \notin DOMAIN session_history
          /\ last_call.session_id \notin DOMAIN active_alerts
          /\ get_alert_history(last_call.session_id) = {}
    /\ (LastWasCheck /\ last_call.sustained) =>
          (SustainedReturned <=> last_call.sustained_before = 0)
    /\ (LastWasCheck /\ ~last_call.sustained) => ~SustainedReturned

\* The sustained alert is returned a second time, after a clear_session.
C6_Witness ==
    /\ LastWasCheck
    /\ SustainedReturned
    /\ sustained_ever[last_call.session_id] = 2
    /\ sustained_count[last_call.session_id] = 1

----------------------------------------------------------------------------
(* Properties of the session store, checked under Spec *)

\* C1: the length of a session's stress_history never exceeds
\* SESSION_MAX_HISTORY, and after any number of update_session calls the
\* history holds exactly the most recent SESSION_MAX_HISTORY entries (all
\* of them while there are fewer) in arrival order: eviction is strictly
\* oldest-first.
C1_HistoryBounded ==
    \A s \in DOMAIN sessions :
        LET history == sessions[s].stress_history
            log     == update_log[s]
            n       == Len(log)
        IN  /\ Len(history) <= SESSION_MAX_HISTORY
            /\ history = IF n > SESSION_MAX_HISTORY
                         THEN SubSeq(log, n - SESSION_MAX_HISTORY + 1, n)
                         ELSE log

\* Two entries more than the capacity were appended to one session, each
\* different from the one before it: the two oldest are gone.
C1_Witness ==
    \E s \in DOMAIN sessions :
        LET history == sessions[s].stress_history
            log     == update_log[s]
        IN  /\ Len(log) = SESSION_MAX_HISTORY + 2
            /\ Len(history) = SESSION_MAX_HISTORY
            /\ \A i \in 1..(Len(log) - 1) : log[i] # log[i + 1]
            /\ history[1] = log[3]

----------------------------------------------------------------------------
(* Properties of the session store as its callers see it, checked under   *)
(* SpecQuery                                                               *)

LastWasUpdate == session_call.op = "update_session"

\* The fields of a SessionInfo.
SessionInfoFields ==
    { "session_id", "worker_id", "duration", "duration_formatted", "status",
      "current_stress", "current_emotion", "total_updates", "analytics" }

\* C15: update_session with a session id that is not in the store (never
\* created, already deleted, or None) auto-creates a session, applies the
\* fused result to it and returns a well-formed SessionInfo of the newly
\* created session, with total_updates = 1.
C15_UnknownIdAutoCreates ==
    (LastWasUpdate /\ ~session_call.known) =>
        LET created == session_call.target
            fused   == session_call.fused_result
        IN  /\ session_call.ret # None
            /\ created # session_call.session_id
            /\ created = next_uuid - 1
            /\ created \in DOMAIN sessions
            /\ session_call.session_id \notin DOMAIN sessions
            /\ DOMAIN session_call.ret[1] = SessionInfoFields
            /\ session_call.ret[1].session_id = created
            /\ session_call.ret[1].total_updates = 1
            /\ session_call.ret[1].current_stress = fused.stress_score
            /\ session_call.ret[1].analytics.data_points = 1
            /\ Len(sessions[created].stress_history) = 1
            /\ sessions[created].stress_history[1].stress_score
                  = fused.stress_score

\* The id of a session that was deleted is updated: another session is
\* created for it.
C15_Witness ==
    /\ LastWasUpdate
    /\ ~session_call.known
    /\ session_call.session_id \in IssuedIds
    /\ session_call.ret # None
    /\ session_call.ret[1].total_updates = 1

\* C16: a session's status takes only the values active, at_risk and
\* ended, and for a live session after every update it is at_risk if and
\* only if the latest fused stress_score is >= the alert-high-stress
\* threshold (0.7), otherwise active.
C16_StatusValues ==
    \A s \in DOMAIN sessions :
        /\ sessions[s].status \in {"active", "at_risk", "ended"}
        /\ (sessions[s].status # "ended" /\ sessions[s].total_updates > 0) =>
              sessions[s].status =
                  IF RGe(sessions[s].current_stress, R(7, 10))
                  THEN "at_risk" ELSE "active"

\* C17: once end_session has been applied to a session, no later operation
\* mutates its history or takes its status out of ended: an update_session
\* issued after end_session leaves stress_history, emotion_counts,
\* total_updates and status unchanged, while get_session_info and
\* get_stress_timeline keep answering until delete_session.
C17_EndedIsFrozen ==
    [][ /\ \A s \in DOMAIN sessions :
              (sessions[s].status = "ended" /\ s \in DOMAIN sessions') =>
                  /\ sessions'[s].status = "ended"
                  /\ sessions'[s].stress_history = sessions[s].stress_history
                  /\ sessions'[s].emotion_counts = sessions[s].emotion_counts
                  /\ sessions'[s].total_updates = sessions[s].total_updates
        /\ (session_call'.op = "get_session_info" /\ session_call'.known) =>
              session_call'.ret # None
      ]_vars

\* A read, an end or a delete with an id that is not in the store.
UnknownIdCall(call) ==
    /\ call.op \in { "get_session_info", "get_stress_timeline",
                     "end_session", "delete_session" }
    /\ ~call.known

\* C20: read, end and delete on an unknown session id never change the
\* store: get_session_info returns None, get_stress_timeline returns an
\* empty sequence, end_session and delete_session are no-ops, and none of
\* them creates a session.
C20_UnknownIdNoOp ==
    [][ UnknownIdCall(session_call') =>
          /\ sessions' = sessions
          /\ next_uuid' = next_uuid
          /\ session_call'.session_id \notin DOMAIN sessions'
          /\ (session_call'.op = "get_session_info") =>
                session_call'.ret = None
          /\ (session_call'.op = "get_stress_timeline") =>
                session_call'.ret = <<>>
      ]_vars

\* The info of a deleted session is asked for while another session is in
\* the store, and None is returned.
C20_Witness ==
    /\ session_call.op = "get_session_info"
    /\ ~session_call.known
    /\ session_call.session_id \in IssuedIds
    /\ session_call.ret = None
    /\ sessions # <<>>

\* The fields of a history entry that a timeline point carries.
TimelinePoint(entry) ==
    [ timestamp    |-> entry.timestamp,
      stress_score |-> entry.stress_score,
      stress_level |-> entry.stress_level,
      emotion      |-> entry.emotion ]

\* C24: for every known session and every limit >= 0, get_stress_timeline
\* returns exactly the min(limit, len(history)) most recent history
\* entries, in chronological (oldest-first) order, and does not modify the
\* session.
C24_TimelineMostRecent ==
    (session_call.op = "get_stress_timeline" /\ session_call.known) =>
        LET history == sessions[session_call.session_id].stress_history
            n == Len(history)
            k == IF session_call.limit < n THEN session_call.limit ELSE n
        IN  session_call.ret =
                [ i \in 1..k |-> TimelinePoint(history[n - k + i]) ]

----------------------------------------------------------------------------
(* Properties of the analytics, checked under SpecAnalytics *)

\* C23: every analytic returned by get_session_info (mean, peak, min,
\* variance, high-stress percentage, emotion distribution, sample count) is
\* a function of the current bounded history only: two sessions whose
\* current histories hold the same entries report the same analytics, also
\* after older entries have been evicted by overflow.
C23_AnalyticsOfHistoryOnly ==
    \A s, t \in DOMAIN sessions :
        sessions[s].stress_history = sessions[t].stress_history =>
            SessionInfo(sessions, s, now)[1].analytics
                = SessionInfo(sessions, t, now)[1].analytics

\* The sum of the counts of a session.
RECURSIVE SumCounts(_)
SumCounts(counts) ==
    IF DOMAIN counts = {} THEN 0
    ELSE LET e == CHOOSE x \in DOMAIN counts : TRUE
         IN  counts[e]
             + SumCounts([ k \in DOMAIN counts \ {e} |-> counts[k] ])

\* The number of update_session calls for the session that returned.
UpdatesApplied(s) ==
    Cardinality({ i \in 1..Len(update_log[s]) :
                    IsHashable(update_log[s][i].emotion) })

\* C28: the derived fields of a session are updated atomically with each
\* fused result: in every reachable state of every session with at least
\* one update, current_stress equals the stress_score of the newest history
\* entry, current_emotion equals its emotion, total_updates equals the
\* number of updates applied, the emotion_counts sum to total_updates, no
\* emotion count ever decreases, and len(history) = min(total_updates, N).
C28_DerivedFieldsInStep ==
    \A s \in DOMAIN sessions :
        LET session == sessions[s]
            history == session.stress_history
            newest  == history[Len(history)]
        IN  session.total_updates >= 1 =>
              /\ session.current_stress = newest.stress_score
              /\ session.current_emotion = newest.emotion
              /\ session.total_updates = UpdatesApplied(s)
              /\ SumCounts(session.emotion_counts) = session.total_updates
              /\ \A e \in DOMAIN session.emotion_counts :
                    session.emotion_counts[e] =
                        Cardinality({ i \in 1..Len(update_log[s]) :
                                        update_log[s][i].emotion = e })
              /\ Len(history) =
                    IF session.total_updates < SESSION_MAX_HISTORY
                    THEN session.total_updates ELSE SESSION_MAX_HISTORY

\* The last call was an update_session that returned.
UpdateReturned ==
    /\ LastWasUpdate
    /\ session_call.raised = None

\* The emotion the claim has update_session record for a fused result.
AudioEmotion(fused) ==
    IF \E i \in 1..Len(fused.modalities_used) :
           fused.modalities_used[i] = "audio"
    THEN fused.audio.emotion
    ELSE "neutral"

\* C29: update_session always records the fused result's audio emotion as
\* the dominant emotion (history entry, current_emotion and the emotion
\* count incremented), never the video emotion: when both modalities are
\* present the audio emotion wins regardless of confidences, and when only
\* video is present or no modality is present the recorded emotion is
\* 'neutral'.
C29_AudioEmotionRecorded ==
    UpdateReturned =>
        LET s == session_call.session_id
            session == sessions[s]
            history == session.stress_history
            emotion == AudioEmotion(session_call.fused_result)
        IN  /\ history[Len(history)].emotion = emotion
            /\ session.current_emotion = emotion
            /\ emotion \in DOMAIN session.emotion_counts
            /\ session.emotion_counts[emotion] =
                  Cardinality({ i \in 1..Len(update_log[s]) :
                                  update_log[s][i].emotion = emotion })

\* The last update fused both modalities, the video one with the larger
\* weight and another emotion, and the audio emotion was recorded.
C29_Witness ==
    /\ UpdateReturned
    /\ session_call.fused_result.modalities_used = <<"audio", "video">>
    /\ RLt(session_call.fused_result.weights.audio,
           session_call.fused_result.weights.video)
    /\ session_call.fused_result.video.emotion = "happy"
    /\ sessions[session_call.session_id].current_emotion = "angry"

----------------------------------------------------------------------------
(* Properties of the handlers, checked under SpecPipeline *)

\* The request reached update_session: fusing its inputs did not raise.
Fused(h) == h.error # Some("AttributeError")

\* update_session of the request has returned.
Updated(h) == Fused(h) /\ h.pc \in { "check_alerts", "emit", "done" }

\* update_session of the request is between its first and its last
\* statement.
Updating(h) == h.pc \in { "update_load", "update_apply", "update_return" }

\* C18: under every interleaving of a delete_session and a concurrent
\* update_session for the same session id the delete either fully precedes
\* or fully follows the update: the update never faults (no exception, no
\* error event) and never leaves partial state; an update that runs after
\* the delete behaves as the unknown-session case and auto-creates a
\* session.
C18_DeleteNeverSplitsUpdate ==
    \A r \in Requests :
        LET h == handlers[r]
        IN  /\ Fused(h) =>
                  /\ h.error = None
                  /\ h.pc # "except"
                  /\ \A i \in 1..Len(h.emitted) : h.emitted[i] # "error"
            /\ Updating(h) => h.target \in DOMAIN sessions
            /\ Updated(h) =>
                  /\ h.session_info # None
                  /\ h.session_info[1].session_id = h.target
                  /\ h.session_info[1].total_updates >= 1
                  /\ h.session_info[1].current_stress
                        = Get(h.fused_result, "stress_score", Half)
                  /\ h.known => h.target = h.session_id
                  /\ ~h.known =>
                        /\ h.target # h.session_id
                        /\ h.session_info[1].total_updates = 1

\* A session was updated, then deleted, then updated again under the same
\* id: the second update created a session.
C18_Witness ==
    \E r \in Requests : \E q \in 1..(r - 1) :
        /\ handlers[q].session_id = handlers[r].session_id
        /\ handlers[q].known
        /\ handlers[r].pc = "done"
        /\ Fused(handlers[r])
        /\ ~handlers[r].known
        /\ handlers[r].session_info # None

\* A request for the session is between the first statement of
\* update_session and the return of check_alerts.
InFlight(s) ==
    \E r \in Requests :
        /\ handlers[r].session_id = s
        /\ handlers[r].pc \in { "update_test", "update_load", "update_apply",
                                 "update_return", "check_alerts" }

\* The last n elements of a list (all of them when there are fewer).
LastN(xs, n) ==
    IF Len(xs) > n THEN SubSeq(xs, Len(xs) - n + 1, Len(xs)) ELSE xs

\* The scores in the history of a session of the store, oldest first.
HistoryScores(s) ==
    [ i \in 1..Len(sessions[s].stress_history) |->
        sessions[s].stress_history[i].stress_score ]

\* The scores in the rolling window of the alert manager, oldest first.
WindowScores(s) ==
    LET window == Get(session_history, s, <<>>)
    IN  [ i \in 1..Len(window) |-> window[i].score ]

\* C19: for any single session, fusion events are applied to the session's
\* state in the order the pipeline accepted them, under every interleaving
\* of concurrent handle_fusion_request calls: the order of the scores in
\* the rolling window of the alert manager is the order of the scores
\* appended to the history of the session manager, and no update is lost
\* (total_updates equals the number of accepted events).
C19_AppliedInAcceptedOrder ==
    \A s \in DOMAIN sessions \cap DOMAIN accepted :
        ~InFlight(s) =>
            LET scores == RequestScores(accepted[s])
            IN  /\ HistoryScores(s) = LastN(scores, SESSION_MAX_HISTORY)
                /\ WindowScores(s) = LastN(scores, ALERT_HISTORY_MAXLEN)
                /\ sessions[s].total_updates = Len(scores)

\* Two events with different scores were accepted for one session, the
\* second one while the handler of the first had not finished.
C19_Witness ==
    \E s \in DOMAIN sessions \cap DOMAIN accepted :
        /\ accepted[s] = <<1, 2>>
        /\ handlers[1].pc = "emit"
        /\ handlers[2].pc \in { "emit", "done" }
        /\ RequestScores(accepted[s])[1] # RequestScores(accepted[s])[2]
        /\ sessions[s].total_updates = 2

\* C22: every session that comes into existence in the store, whether by
\* explicit creation on connect or by implicit auto-creation during an
\* update, is announced by exactly one session_created event carrying its
\* generated session id; session ids are never reused.
C22_EverySessionAnnounced ==
    /\ \A s \in DOMAIN sessions :
          /\ Get(announced, s, 0) = 1
          /\ sessions[s].session_id = s
          /\ s \in IssuedIds
    /\ \A s \in DOMAIN announced : announced[s] = 1

\* The request found no session under its id: update_session created one.
AutoCreated(h) ==
    /\ Fused(h)
    /\ h.pc # "update_test"
    /\ ~h.known

\* check_alerts of the request has returned.
Checked(h) == Updated(h) /\ h.pc \in { "emit", "done" }

\* C30: auto-creation never binds the supplied id: a handle_fusion_request
\* with an unknown id s stores the new session under a freshly generated
\* id different from s, so s stays unknown afterwards; the requests with
\* an unknown id create one session each, all distinct, each with
\* total_updates = 1; and the alert window of the request is kept under s,
\* an id that has no session in the store, not under the generated id.
C30_AutoCreationNeverBindsSuppliedId ==
    \A r \in Requests :
        LET h == handlers[r]
        IN  AutoCreated(h) =>
              /\ h.target # h.session_id
              /\ h.target \in IssuedIds
              /\ h.session_id \notin DOMAIN sessions
              /\ \A q \in Requests \ { r } :
                    AutoCreated(handlers[q]) =>
                        handlers[q].target # h.target
              /\ Updated(h) =>
                    /\ h.session_info # None
                    /\ h.session_info[1].session_id = h.target
                    /\ h.session_info[1].total_updates = 1
                    /\ h.target \in DOMAIN sessions =>
                          sessions[h.target].total_updates = 1
              /\ Checked(h) =>
                    /\ h.session_id \in DOMAIN session_history
                    /\ \E i \in 1..Len(session_history[h.session_id]) :
                          session_history[h.session_id][i].score
                             = Get(h.fused_result, "stress_score", Half)
                    /\ h.target \notin DOMAIN session_history

\* Two requests carried the same unknown id and were served to the end:
\* two sessions are in the store, none of them under that id, and the
\* alert window under that id holds both scores.
C30_Witness ==
    /\ Len(handlers) = 2
    /\ handlers[1].session_id = handlers[2].session_id
    /\ AutoCreated(handlers[1]) /\ AutoCreated(handlers[2])
    /\ handlers[1].pc = "done" /\ handlers[2].pc = "done"
    /\ handlers[1].target # handlers[2].target
    /\ { handlers[1].target, handlers[2].target } \subseteq DOMAIN sessions
    /\ sessions[handlers[1].target].total_updates = 1
    /\ sessions[handlers[2].target].total_updates = 1
    /\ handlers[1].session_id \notin DOMAIN sessions
    /\ Len(Get(session_history, handlers[1].session_id, <<>>)) = 2

----------------------------------------------------------------------------
(* Properties of the pull queries, checked under SpecPull *)

PullServed == pull_query.op # "none"

\* The limit of the query served is a number (there is none in a
\* get_session_info query).
PullWellFormed == pull_query.limit = None \/ IsInt(pull_query.limit[1])

\* The event a pull query answers a known session id with.
PullAnswer(op) ==
    IF op = "get_session_info" THEN "session_info" ELSE "timeline_data"

\* C21: both pull queries answer an unknown session id with an error event:
\* handle_get_session_info and handle_get_timeline emit error (and no
\* session_info / timeline_data) when the queried session id is not in the
\* store, and emit session_info / timeline_data when it is.
C21_UnknownIdIsError ==
    (PullServed /\ PullWellFormed) =>
        pull_query.emitted =
            IF pull_query.known THEN <<PullAnswer(pull_query.op)>>
            ELSE <<"error">>

\* The events of a handle_fusion_request that went through: stress_update,
\* session_update, and one alert event per alert check_alerts returned.
SuccessEvents(h) ==
    <<"stress_update", "session_update">>
    \o [ i \in 1..Len(h.alerts) |-> "alert" ]

\* C25: no exception crosses the pipeline boundary: every
\* handle_fusion_request ends in exactly one of two outcomes, either the
\* events stress_update, then session_update, then one alert event per
\* alert raised (in that order, after the session update and the alert
\* check were both applied), or a single error event; and the pull-query
\* handlers likewise never raise for any request payload.
C25_NoExceptionCrossesBoundary ==
    /\ \A r \in Requests :
          LET h == handlers[r]
          IN  h.pc = "done" =>
                \/ /\ h.error = None
                   /\ h.session_info # None
                   /\ h.emitted = SuccessEvents(h)
                \/ /\ h.error # None
                   /\ h.emitted = <<"error">>
    /\ PullServed => pull_query.raised = None

----------------------------------------------------------------------------
(* Properties of the spike check, checked under SpecSpike *)

\* The alerts of the given type among those the last call returned.
ReturnedOfType(type) ==
    SelectSeq(returned_alerts, LAMBDA alert : alert.type = type)

\* The window of the session of the last call, as the call left it.
CheckedWindow == session_history[last_call.session_id]

\* The scores of the up to 5 samples immediately before the newest one.
PrecedingScores ==
    LET n == Len(CheckedWindow)
        k == IF n - 1 < 5 THEN n - 1 ELSE 5
    IN  [ i \in 1..k |-> CheckedWindow[n - k - 1 + i].score ]

\* A spike sample of the same whole second was fed to the session before.
SpikeKeyFired ==
    \E t \in last_call.earlier_spikes :
        RInt(t) = RInt(last_call.timestamp)

WindowScoresOf(window) == [ i \in 1..Len(window) |-> window[i].score ]

Scenario3Scores == <<R(2, 10), R(2, 10), R(2, 10), R(2, 10), R(9, 10)>>

\* The five samples of scenario 3 were fed one second apart, and nothing
\* else.
Scenario3Fed ==
    /\ LastWasCheck
    /\ n_checks = 5
    /\ WindowScoresOf(CheckedWindow) = Scenario3Scores
    /\ \A i \in 1..4 :
          CheckedWindow[i + 1].timestamp
              = RAdd(CheckedWindow[i].timestamp, One)

----------------------------------------------------------------------------
(* Properties of the sustained check, checked under SpecSustained *)

\* The entries of the window stamped within the last
\* ALERT_HIGH_STRESS_DURATION seconds of the sample of the last call.
WithinDuration ==
    LET t == last_call.timestamp
        within(entry) ==
            /\ RGe(entry.timestamp,
                   RSub(t, R(ALERT_HIGH_STRESS_DURATION, 1)))
            /\ RGe(t, entry.timestamp)
    IN  SelectSeq(CheckedWindow, within)

HighOf(entries) ==
    SelectSeq(entries, LAMBDA entry : RGe(entry.score, R(7, 10)))

=============================================================================
